---- MODULE Spec2Model ----
(***************************************************************************)
(* smt-kit: statically and dynamically sorted SMT terms (include/smt.h),   *)
(* their encoding dispatch onto a Solver, and the Solver's incremental     *)
(* assertion stack.                                                        *)
(*                                                                         *)
(* Two specifications share the variables:                                 *)
(*   Spec       the Solver protocol (reset/push/pop/add/unsafe_add/check   *)
(*              and direct encode calls) over a heap of already built      *)
(*              terms;                                                     *)
(*   SpecBuild  the builder layer: node constructors, typed and untyped    *)
(*              builders, handle casts and encode dispatch on a growing    *)
(*              heap.                                                      *)
(***************************************************************************)
EXTENDS Integers, Sequences, FiniteSets, TLC

\* ------------------------------------------------------------------ bounds
\* number of nodes the builder specification may allocate
MaxNodes == 1
\* number of frames that may be open above the base frame
MaxDepth == 2
\* integer constants range over -MaxInt .. MaxInt when a formula is decided
MaxInt == 2
\* number of assertions the frames may hold together
MaxAsserts == 3
\* sorts(i) is called with the indices 0 .. MaxIndex
MaxIndex == 3

\* ------------------------------------------------------------ enumerations
\* enum Opcode
LNOT == "LNOT"
NOT == "NOT"
SUB == "SUB"
AND == "AND"
OR == "OR"
XOR == "XOR"
LAND == "LAND"
LOR == "LOR"
IMP == "IMP"
EQL == "EQL"
ADD == "ADD"
MUL == "MUL"
QUO == "QUO"
REM == "REM"
LSS == "LSS"
GTR == "GTR"
NEQ == "NEQ"
LEQ == "LEQ"
GEQ == "GEQ"

Opcode ==
  {LNOT, NOT, SUB, AND, OR, XOR, LAND, LOR, IMP, EQL, ADD, MUL, QUO, REM,
   LSS, GTR, NEQ, LEQ, GEQ}

\* enum Error
OK == "OK"
OPCODE_ERROR == "OPCODE_ERROR"
UNSUPPORT_ERROR == "UNSUPPORT_ERROR"

Error == {OK, OPCODE_ERROR, UNSUPPORT_ERROR}

\* enum CheckResult
unsat == "unsat"
sat == "sat"
unknown == "unknown"

CheckResult == {unsat, sat, unknown}

\* enum ExprKind
LITERAL_EXPR_KIND == "LITERAL_EXPR_KIND"
UNARY_EXPR_KIND == "UNARY_EXPR_KIND"
BINARY_EXPR_KIND == "BINARY_EXPR_KIND"
NARY_EXPR_KIND == "NARY_EXPR_KIND"
CONST_ARRAY_EXPR_KIND == "CONST_ARRAY_EXPR_KIND"
ARRAY_SELECT_EXPR_KIND == "ARRAY_SELECT_EXPR_KIND"
ARRAY_STORE_EXPR_KIND == "ARRAY_STORE_EXPR_KIND"
CONSTANT_EXPR_KIND == "CONSTANT_EXPR_KIND"
FUNC_APP_EXPR_KIND == "FUNC_APP_EXPR_KIND"

ExprKind ==
  {LITERAL_EXPR_KIND, UNARY_EXPR_KIND, BINARY_EXPR_KIND, NARY_EXPR_KIND,
   CONST_ARRAY_EXPR_KIND, ARRAY_SELECT_EXPR_KIND, ARRAY_STORE_EXPR_KIND,
   CONSTANT_EXPR_KIND, FUNC_APP_EXPR_KIND}

\* the primitive types SMT_ENCODE_BUILTIN_LITERAL is instantiated for
BuiltinLiteralTypes ==
  {"bool", "char", "signed char", "unsigned char", "wchar_t", "char16_t",
   "char32_t", "short", "unsigned short", "int", "unsigned int", "long",
   "unsigned long", "long long", "unsigned long long"}

\* ------------------------------------------------------------------- sorts
\* The static term types of the model.  BvS8 is Bv<signed char>, BvU8 is
\* Bv<unsigned char>, ArrIntInt is Array<Int, Int>, FuncIntInt is
\* Func<Int, Int>.
PrimTypes == {"Bool", "Int", "BvS8", "BvU8"}
Types == PrimTypes \cup {"ArrIntInt", "FuncIntInt"}

\* Sort::Sort(is_bool, is_int, is_real, is_bv, is_signed, bv_size)
PrimitiveSort(is_bool, is_int, is_real, is_bv, is_signed, bv_size) ==
  [is_bool |-> is_bool, is_int |-> is_int, is_real |-> is_real,
   is_bv |-> is_bv, is_signed |-> is_signed, bv_size |-> bv_size,
   is_array |-> FALSE, is_func |-> FALSE, is_tuple |-> FALSE,
   sorts_at |-> "nullptr", sorts |-> << >>]

\* Sort::Sort(is_func, is_array, is_tuple, sorts): sorts_at is the address
\* of the referenced array of nested sorts, sorts its elements
CompositeSort(is_func, is_array, is_tuple, sorts_at, sorts) ==
  [is_bool |-> FALSE, is_int |-> FALSE, is_real |-> FALSE,
   is_bv |-> FALSE, is_signed |-> FALSE, bv_size |-> 0,
   is_array |-> is_array, is_func |-> is_func, is_tuple |-> is_tuple,
   sorts_at |-> sorts_at, sorts |-> sorts]

\* a bit-vector Sort that leaves the signedness out
BvSortUnsigned(is_signed, bytes) ==
  PrimitiveSort(FALSE, FALSE, FALSE, TRUE, FALSE, 8 * bytes)

\* internal::__Bv<T>::s_sort
BvSort(is_signed, bytes) ==
  PrimitiveSort(FALSE, FALSE, FALSE, TRUE, is_signed, 8 * bytes)

\* a Sort of a mathematical type in which Int is set for Bool as well
MathSortBoolAsInt(T) ==
  PrimitiveSort(T = "Bool", T \in {"Bool", "Int"}, T = "Real", FALSE, FALSE, 0)

\* internal::__Math<T>::s_sort
MathSort(T) ==
  PrimitiveSort(T = "Bool", T = "Int", T = "Real", FALSE, FALSE, 0)

\* The function types Func<T...> of the model, each named by its template
\* arguments, the last of which is the range: Func<Int, Int>,
\* Func<Int, Bool> and Func<Bool, Int, Bv<unsigned char>>
FuncTypes == {"FuncIntInt", "FuncIntBool", "FuncBoolIntBvU8"}

\* the template arguments T... of Func<T...>
FuncParams(F) ==
  CASE F = "FuncIntInt" -> <<"Int", "Int">>
    [] F = "FuncIntBool" -> <<"Int", "Bool">>
    [] F = "FuncBoolIntBvU8" -> <<"Bool", "Int", "BvU8">>

RECURSIVE FuncSort(_, _)
\* internal::__FuncSort<__SortArray<N, sorts...>, T, U...>: the address of
\* the Sort of T is put after sorts..., then the recursion goes on with
\* U...; the base case stores sorts... as s_sorts
FuncSort(built, U) ==
  IF U = << >> THEN built
  ELSE FuncSort(Append(built, Head(U)), Tail(U))

\* internal::__Math<Func<T, U...>>::s_sort
MathFuncSort(F) ==
  CompositeSort(TRUE, FALSE, FALSE, F,
                FuncSort(<<Head(FuncParams(F))>>, Tail(FuncParams(F))))

\* internal::sort<T>(): the statically allocated Sort of T.  A Sort object is
\* identified by the type that owns it; nested sorts are referenced by that
\* identity.
sort(T) ==
  CASE T = "Bool" -> MathSort("Bool")
    [] T = "Int" -> MathSort("Int")
    [] T = "BvS8" -> BvSort(TRUE, 1)
    [] T = "BvU8" -> BvSort(FALSE, 1)
    [] T = "ArrIntInt" ->
         CompositeSort(FALSE, TRUE, FALSE, "ArrIntInt", <<"Int", "Int">>)
    [] T = "FuncIntInt" -> MathFuncSort("FuncIntInt")
    [] T = "Real" -> MathSort("Real")

\* Sort objects client code allocates itself with Sort's public
\* constructors: two array sorts over {Int, Int} whose nested-sort arrays are
\* stored in places of their own, a Sort move-constructed from the Sort of
\* Array<Int, Int>, a tuple sort over {Int, Int} and a tuple sort over {Int}
UserSortNames ==
  {"UserArrA", "UserArrB", "UserArrMoved", "UserTuple", "UserSingle"}

UserSort(name) ==
  CASE name = "UserArrA" ->
         CompositeSort(FALSE, TRUE, FALSE, "UserArrA", <<"Int", "Int">>)
    [] name = "UserArrB" ->
         CompositeSort(FALSE, TRUE, FALSE, "UserArrB", <<"Int", "Int">>)
    [] name = "UserArrMoved" -> sort("ArrIntInt")
    [] name = "UserTuple" ->
         CompositeSort(FALSE, FALSE, TRUE, "UserTuple", <<"Int", "Int">>)
    [] name = "UserSingle" ->
         CompositeSort(FALSE, FALSE, TRUE, "UserSingle", <<"Int">>)

\* every Sort object, by the name of its place
SortNames == Types \cup UserSortNames

\* the Sort object at a place
SortObj(name) ==
  IF name \in Types \cup {"Real"} THEN sort(name)
  ELSE IF name \in FuncTypes THEN MathFuncSort(name)
  ELSE UserSort(name)

\* Sort::operator== on the Sort objects named S and T
SortEq(S, T) ==
  IF S = T THEN TRUE
  ELSE /\ SortObj(S).is_bool = SortObj(T).is_bool
       /\ SortObj(S).is_int = SortObj(T).is_int
       /\ SortObj(S).is_real = SortObj(T).is_real
       /\ SortObj(S).is_bv = SortObj(T).is_bv
       /\ SortObj(S).is_signed = SortObj(T).is_signed
       /\ SortObj(S).bv_size = SortObj(T).bv_size
       /\ SortObj(S).is_func = SortObj(T).is_func
       /\ SortObj(S).is_array = SortObj(T).is_array
       /\ SortObj(S).is_tuple = SortObj(T).is_tuple
       /\ SortObj(S).sorts_at = SortObj(T).sorts_at
       /\ Len(SortObj(S).sorts) = Len(SortObj(T).sorts)

\* an index check that lets the index one past the last nested sort through
check_sorts_index_past(S, index) == index <= Len(SortObj(S).sorts)

\* Sort::check_sorts_index: whether the index passes; std::out_of_range is
\* thrown when it does not
check_sorts_index(S, index) == index < Len(SortObj(S).sorts)

\* Sort::sorts(index), index counted from 0: the name of the nested Sort
\* *m_sorts[index] after check_sorts_index(index); what a read past the end
\* of the array yields is not a Sort
sorts(S, index) ==
  IF check_sorts_index(S, index)
  THEN IF index + 1 \in DOMAIN SortObj(S).sorts
       THEN SortObj(S).sorts[index + 1]
       ELSE "undefined"
  ELSE "out_of_range"

\* ------------------------------------------------------------ declarations
\* UnsafeDecl(symbol, sort) / Decl<T>(symbol)
UnsafeDecl(symbol, S) == [symbol |-> symbol, sort |-> S]
Decl(T, symbol) == UnsafeDecl(symbol, T)
NoDecl == [symbol |-> "", sort |-> "none"]

\* ------------------------------------------------------------------- nodes
\* A term handle (UnsafeTerm, Term<T>) is the address of its node; Null is
\* the handle with no node (m_ptr == nullptr, addr() == 0).
Null == 0

\* An expression node.  sort names the Sort object the node references, dyn
\* the T of the Expr<T> base class of the node's dynamic class ("none" for a
\* node of an Unsafe...Expr class), operands the operand handles in their
\* stored order.
Node(kind, S, dyn, opcode, operands, decl, littype, litval) ==
  [kind |-> kind, sort |-> S, dyn |-> dyn, opcode |-> opcode,
   operands |-> operands, decl |-> decl, littype |-> littype,
   litval |-> litval]

\* UnsafeLiteralExpr<U>::UnsafeLiteralExpr(sort, literal)
UnsafeLiteralExpr(S, U, literal) ==
  Node(LITERAL_EXPR_KIND, S, "none", "none", << >>, NoDecl, U, literal)

\* a literal node that keeps the scalar cut to the 8 bits of the model's
\* bit-vector types
LiteralExprTruncated(T, U, literal) ==
  [UnsafeLiteralExpr(T, U, literal % 256) EXCEPT !.dyn = T]

\* LiteralExpr<T, U>::LiteralExpr(literal)
LiteralExpr(T, U, literal) ==
  [UnsafeLiteralExpr(T, U, literal) EXCEPT !.dyn = T]

\* UnsafeConstantExpr::UnsafeConstantExpr(decl)
UnsafeConstantExpr(decl) ==
  Node(CONSTANT_EXPR_KIND, decl.sort, "none", "none", << >>, decl, "none", 0)

\* ConstantExpr<T>::ConstantExpr(decl)
ConstantExpr(T, decl) ==
  [UnsafeConstantExpr(decl) EXCEPT !.sort = T, !.dyn = T]

\* the assertions of UnsafeUnaryExpr's constructor
UnsafeUnaryExprPre(operand) == operand # Null

\* UnsafeUnaryExpr::UnsafeUnaryExpr(sort, opcode, operand)
UnsafeUnaryExpr(S, opcode, operand) ==
  Node(UNARY_EXPR_KIND, S, "none", opcode, <<operand>>, NoDecl, "none", 0)

\* UnaryExpr<opcode, T, U>::UnaryExpr(operand)
UnaryExpr(opcode, U, operand) ==
  [UnsafeUnaryExpr(U, opcode, operand) EXCEPT !.dyn = U]

\* the assertions of UnsafeBinaryExpr's constructor
UnsafeBinaryExprPre(loperand, roperand) ==
  loperand # Null /\ roperand # Null

\* UnsafeBinaryExpr::UnsafeBinaryExpr(sort, opcode, loperand, roperand)
UnsafeBinaryExpr(S, opcode, loperand, roperand) ==
  Node(BINARY_EXPR_KIND, S, "none", opcode, <<loperand, roperand>>, NoDecl,
       "none", 0)

\* BinaryExpr<opcode, T, U>::BinaryExpr(loperand, roperand)
BinaryExpr(opcode, U, loperand, roperand) ==
  [UnsafeBinaryExpr(U, opcode, loperand, roperand) EXCEPT !.dyn = U]

\* the assertion of UnsafeNaryExpr's constructors
UnsafeNaryExprPre(operands) == operands # << >>

\* UnsafeNaryExpr::UnsafeNaryExpr(sort, opcode, operands)
UnsafeNaryExpr(S, opcode, operands) ==
  Node(NARY_EXPR_KIND, S, "none", opcode, operands, NoDecl, "none", 0)

\* NaryExpr<opcode, T, U>::NaryExpr(operands)
NaryExpr(opcode, U, operands) ==
  [UnsafeNaryExpr(U, opcode, operands) EXCEPT !.dyn = U]

\* the assertion of UnsafeConstArrayExpr's constructor
UnsafeConstArrayExprPre(init) == init # Null

\* UnsafeConstArrayExpr::UnsafeConstArrayExpr(sort, init)
UnsafeConstArrayExpr(S, init) ==
  Node(CONST_ARRAY_EXPR_KIND, S, "none", "none", <<init>>, NoDecl, "none", 0)

\* ConstArrayExpr<Domain, Range>::ConstArrayExpr(init), A is Array<Domain,
\* Range>
ConstArrayExpr(A, init) ==
  [UnsafeConstArrayExpr(A, init) EXCEPT !.dyn = A]

\* the assertions of UnsafeArraySelectExpr's constructor; array.sort() in
\* its initializer list asserts a non-null array first
UnsafeArraySelectExprPre(array, index) == array # Null /\ index # Null

\* UnsafeArraySelectExpr::UnsafeArraySelectExpr(array, index): S is the sort
\* the most derived class gives the node
UnsafeArraySelectExpr(S, array, index) ==
  Node(ARRAY_SELECT_EXPR_KIND, S, "none", "none", <<array, index>>, NoDecl,
       "none", 0)

\* ArraySelectExpr<Domain, Range>::ArraySelectExpr(array, index)
ArraySelectExpr(Range, array, index) ==
  [UnsafeArraySelectExpr(Range, array, index) EXCEPT !.dyn = Range]

\* the assertions of UnsafeArrayStoreExpr's constructor
UnsafeArrayStoreExprPre(array, index, value) ==
  array # Null /\ index # Null /\ value # Null

\* UnsafeArrayStoreExpr::UnsafeArrayStoreExpr(array, index, value)
UnsafeArrayStoreExpr(S, array, index, value) ==
  Node(ARRAY_STORE_EXPR_KIND, S, "none", "none", <<array, index, value>>,
       NoDecl, "none", 0)

\* ArrayStoreExpr<Domain, Range>::ArrayStoreExpr(array, index, value)
ArrayStoreExpr(A, array, index, value) ==
  [UnsafeArrayStoreExpr(A, array, index, value) EXCEPT !.dyn = A]

\* the constructor of UnsafeFuncAppExpr asserts nothing about its arguments
UnsafeFuncAppExprPre(args) == TRUE

\* UnsafeFuncAppExpr<arity>::UnsafeFuncAppExpr(func_decl, args)
UnsafeFuncAppExpr(S, func_decl, args) ==
  Node(FUNC_APP_EXPR_KIND, S, "none", "none", args, func_decl, "none", 0)

\* FuncAppExpr<T...>::FuncAppExpr(func_decl, args)
FuncAppExpr(Range, func_decl, args) ==
  [UnsafeFuncAppExpr(Range, func_decl, args) EXCEPT !.dyn = Range]

\* ----------------------------------------------------------------- handles
\* internal::Term<T>::operator UnsafeTerm(): the untyped handle of the node
\* of a typed handle
TermToUnsafe(h) == h

\* a down-cast that compares the node's sort with the sort of T
UnsafeToTermBySort(heap, h, T) ==
  IF h = Null THEN Null
  ELSE IF SortEq(heap[h].sort, T) THEN h ELSE Null

\* UnsafeTerm::operator T(): std::dynamic_pointer_cast<const Expr<T>> of the
\* node pointer, which is null for a null pointer and for a node whose
\* dynamic class does not derive from Expr<T>
UnsafeToTerm(heap, h, T) ==
  IF h = Null THEN Null
  ELSE IF heap[h].dyn = T THEN h ELSE Null

\* UnsafeTerm::is_null / internal::Term<T>::is_null
is_null(h) == h = Null

\* the handles a variable of static type T can hold
TypedHandles(heap, T) ==
  {Null} \cup {a \in DOMAIN heap : heap[a].dyn = T}

\* ---------------------------------------------------------- encode dispatch
\* one invocation of a Solver hook with the arguments it is given
HookCall(hook, opcode, S, decl, arity, args, littype, litval) ==
  [hook |-> hook, opcode |-> opcode, sort |-> S, decl |-> decl,
   arity |-> arity, args |-> args, littype |-> littype, litval |-> litval]

\* an encoding that hands the hook a value-initialized literal
LiteralEncodeNoValue(n) ==
  <<HookCall("encode_literal", "none", n.sort, NoDecl, 0, << >>, n.littype,
             0)>>

\* UnsafeLiteralExpr<T>::__encode
LiteralEncode(n) ==
  <<HookCall("encode_literal", "none", n.sort, NoDecl, 0, << >>, n.littype,
             n.litval)>>

\* UnsafeConstantExpr::__encode
ConstantEncode(n) ==
  <<HookCall("encode_constant", "none", "none", n.decl, 0, << >>, "none", 0)>>

\* UnsafeFuncAppExpr<arity>::__encode
FuncAppEncode(n) ==
  <<HookCall("encode_func_app", "none", "none", n.decl, Len(n.operands),
             n.operands, "none", 0)>>

\* UnsafeUnaryExpr::__encode
UnaryEncode(n) ==
  <<HookCall("encode_unary", n.opcode, n.sort, NoDecl, 0, n.operands,
             "none", 0)>>

\* UnsafeBinaryExpr::__encode, with the operands swapped
BinaryEncodeSwapped(n) ==
  <<HookCall("encode_binary", n.opcode, n.sort, NoDecl, 0,
             <<n.operands[2], n.operands[1]>>, "none", 0)>>

\* UnsafeBinaryExpr::__encode
BinaryEncode(n) ==
  <<HookCall("encode_binary", n.opcode, n.sort, NoDecl, 0,
             <<n.operands[1], n.operands[2]>>, "none", 0)>>

\* UnsafeNaryExpr::__encode
NaryEncode(n) ==
  <<HookCall("encode_nary", n.opcode, n.sort, NoDecl, 0, n.operands,
             "none", 0)>>

\* UnsafeConstArrayExpr::__encode
ConstArrayEncode(n) ==
  <<HookCall("encode_const_array", "none", n.sort, NoDecl, 0, n.operands,
             "none", 0)>>

\* UnsafeArraySelectExpr::__encode
ArraySelectEncode(n) ==
  <<HookCall("encode_array_select", "none", "none", NoDecl, 0, n.operands,
             "none", 0)>>

\* UnsafeArrayStoreExpr::__encode
ArrayStoreEncode(n) ==
  <<HookCall("encode_array_store", "none", "none", NoDecl, 0, n.operands,
             "none", 0)>>

\* UnsafeExpr::__encode, virtual: the hook calls the node's own class issues
NodeEncode(n) ==
  CASE n.kind = LITERAL_EXPR_KIND -> LiteralEncode(n)
    [] n.kind = CONSTANT_EXPR_KIND -> ConstantEncode(n)
    [] n.kind = FUNC_APP_EXPR_KIND -> FuncAppEncode(n)
    [] n.kind = UNARY_EXPR_KIND -> UnaryEncode(n)
    [] n.kind = BINARY_EXPR_KIND -> BinaryEncode(n)
    [] n.kind = NARY_EXPR_KIND -> NaryEncode(n)
    [] n.kind = CONST_ARRAY_EXPR_KIND -> ConstArrayEncode(n)
    [] n.kind = ARRAY_SELECT_EXPR_KIND -> ArraySelectEncode(n)
    [] n.kind = ARRAY_STORE_EXPR_KIND -> ArrayStoreEncode(n)

\* ------------------------------------------------------------------ backend
\* A backend is a Solver subclass.  It is described by the set of literal
\* types whose __encode_literal it overrides; its other hooks encode the
\* operands depth-first and then look at the opcode.
Backends ==
  {{}, {"bool", "int", "long"}, BuiltinLiteralTypes}

\* the opcodes a backend recognizes for one, two and N operands
UnaryOpcodes == {LNOT, NOT, SUB}
BinaryOpcodes == Opcode \ {LNOT, NOT}
NaryOpcodes == {NEQ, LAND, LOR, ADD, MUL, AND, OR, XOR}

\* a literal hook that accepts every literal
DefaultEncodeLiteralOK(S, ty, literal) == OK

\* Solver::__encode_literal as Solver defines it for every builtin type
DefaultEncodeLiteral(S, ty, literal) == UNSUPPORT_ERROR

\* a backend's override of __encode_literal
OverrideEncodeLiteral(S, ty, literal) == OK

\* Solver::encode_literal(sort, literal) on a backend overriding the literal
\* hooks of the types in ov
encode_literal(ov, S, ty, literal) ==
  IF ty \in ov THEN OverrideEncodeLiteral(S, ty, literal)
  ELSE DefaultEncodeLiteral(S, ty, literal)

\* the first error of a sequence of results, OK if there is none
RECURSIVE FirstError(_)
FirstError(errs) ==
  IF errs = << >> THEN OK
  ELSE IF Head(errs) # OK THEN Head(errs) ELSE FirstError(Tail(errs))

\* what the backend answers for the opcode of a call
OpcodeResult(c) ==
  CASE c.hook = "encode_unary" ->
         IF c.opcode \in UnaryOpcodes THEN OK ELSE OPCODE_ERROR
    [] c.hook = "encode_binary" ->
         IF c.opcode \in BinaryOpcodes THEN OK ELSE OPCODE_ERROR
    [] c.hook = "encode_nary" ->
         IF c.opcode \in NaryOpcodes THEN OK ELSE OPCODE_ERROR
    [] OTHER -> OK

\* whether no null handle is met when the node at address a and its operands
\* are encoded (UnsafeTerm::encode asserts !is_null())
RECURSIVE NullFree(_, _)
NullFree(heap, a) ==
  /\ a # Null
  /\ \A i \in 1..Len(heap[a].operands) : NullFree(heap, heap[a].operands[i])

\* Solver::encode_* forwarding to the backend's hook, and
\* UnsafeTerm::encode / UnsafeExpr::encode of the node at address a:
\* the Error the hook returns for the last call the node issues
RECURSIVE SolverHook(_, _, _), encode(_, _, _)
SolverHook(heap, ov, c) ==
  IF c.hook = "encode_literal"
  THEN encode_literal(ov, c.sort, c.littype, c.litval)
  ELSE LET sub == [i \in 1..Len(c.args) |-> encode(heap, ov, c.args[i])]
       IN IF FirstError(sub) # OK THEN FirstError(sub) ELSE OpcodeResult(c)

encode(heap, ov, a) ==
  LET cs == NodeEncode(heap[a]) IN SolverHook(heap, ov, cs[Len(cs)])

\* UnsafeExpr::encode: the value returned to the caller of encode
EncodeReturn(heap, ov, a) == encode(heap, ov, a)

\* ---------------------------------------------------------------- deciding
\* The backend decides a conjunction of asserted formulas over the integer
\* constants Symbols, each ranging over -MaxInt .. MaxInt.
Symbols == {"x"}
Models == [Symbols -> (0 - MaxInt)..MaxInt]

\* the indices of the arrays of a model, cut at MaxInt
ArrayIndices == 0..MaxInt

\* the value of the term at address a in model m: an integer for an Int
\* term, a boolean for a Bool term, a function from indices to values for
\* an array term
RECURSIVE Eval(_, _, _)
Eval(heap, a, m) ==
  LET n == heap[a]
      arg(i) == Eval(heap, n.operands[i], m)
  IN CASE n.kind = LITERAL_EXPR_KIND ->
            IF sort(n.sort).is_bool THEN n.litval # 0 ELSE n.litval
       [] n.kind = CONSTANT_EXPR_KIND -> m[n.decl.symbol]
       [] n.kind = UNARY_EXPR_KIND ->
            IF n.opcode = LNOT THEN ~arg(1) ELSE 0 - arg(1)
       [] n.kind = NARY_EXPR_KIND ->
            \A i, j \in 1..Len(n.operands) : i # j => arg(i) # arg(j)
       [] n.kind = CONST_ARRAY_EXPR_KIND ->
            [k \in ArrayIndices |-> arg(1)]
       [] n.kind = ARRAY_SELECT_EXPR_KIND -> arg(1)[arg(2)]
       [] n.kind = ARRAY_STORE_EXPR_KIND ->
            [arg(1) EXCEPT ![arg(2)] = arg(3)]
       [] n.kind = BINARY_EXPR_KIND ->
            CASE n.opcode = LSS -> arg(1) < arg(2)
              [] n.opcode = GTR -> arg(1) > arg(2)
              [] n.opcode = LEQ -> arg(1) <= arg(2)
              [] n.opcode = GEQ -> arg(1) >= arg(2)
              [] n.opcode = EQL -> arg(1) = arg(2)
              [] n.opcode = NEQ -> arg(1) # arg(2)
              [] n.opcode = LAND -> arg(1) /\ arg(2)
              [] n.opcode = LOR -> arg(1) \/ arg(2)
              [] n.opcode = IMP -> arg(1) => arg(2)
              [] n.opcode = ADD -> arg(1) + arg(2)
              [] n.opcode = SUB -> arg(1) - arg(2)

\* the models of a set of asserted terms
ModelsOf(heap, asserted) ==
  {m \in Models : \A a \in asserted : Eval(heap, a, m)}

\* the union of the assertions of the frames fs
AllAsserted(fs) == UNION {fs[i] : i \in 1..Len(fs)}

\* the assertions of the topmost frame only
TopAsserted(fs) == fs[Len(fs)]

\* what check() decides: the conjunction of the assertions of all frames
Asserted(fs) == AllAsserted(fs)

\* Solver::check on the assertion stack fs
DecideFrames(heap, fs) ==
  IF ModelsOf(heap, Asserted(fs)) # {} THEN sat ELSE unsat

\* ------------------------------------------------------- assertion stack
\* reset() dropping the frames above the base but keeping the base frame's
\* assertions
ResetKeepsBase(fs) == <<fs[1]>>

\* Solver::reset: back to the single, empty base frame
ResetFrames(fs) == <<{}>>

\* Solver::push: a new empty frame above the current one
PushFrames(fs) == Append(fs, {})

\* pop() leaving the assertions of the removed frame in the frame below
PopKeepsAssertions(fs) ==
  [i \in 1..(Len(fs) - 1) |->
     IF i = Len(fs) - 1 THEN fs[i] \cup fs[Len(fs)] ELSE fs[i]]

\* Solver::pop with a frame open above the base: the topmost frame and its
\* assertions are discarded
PopFrames(fs) == SubSeq(fs, 1, Len(fs) - 1)

\* pop() accepted whatever the stack is
PopPreNone(fs) == TRUE

\* pop() is a contract violation when no frame is open beyond the base
PopPre(fs) == Len(fs) > 1

\* an assertion that takes the place of those of the top frame
AssertFramesReplacing(fs, a) == [fs EXCEPT ![Len(fs)] = {a}]

\* an assertion recorded in the base frame instead of the top frame
AssertInBase(fs, a) == [fs EXCEPT ![1] = fs[1] \cup {a}]

\* the encoded term a recorded as an assertion of the topmost frame
AssertFrames(fs, a) == [fs EXCEPT ![Len(fs)] = fs[Len(fs)] \cup {a}]

\* Solver::add(const Bool&) on the stack fs: the term is encoded and, when
\* the encoding is OK, asserted
AddFrames(heap, ov, fs, t) ==
  IF encode(heap, ov, TermToUnsafe(t)) = OK
  THEN AssertFrames(fs, TermToUnsafe(t))
  ELSE fs

\* Solver::unsafe_add(const UnsafeTerm&) on the stack fs
UnsafeAddFrames(heap, ov, fs, u) ==
  IF encode(heap, ov, u) = OK THEN AssertFrames(fs, u) ELSE fs

\* what add and unsafe_add give their caller: both are declared void
AddReturn(err) == "void"

\* ------------------------------------------------------------ built terms
\* the builtin literal types in the order of their SMT_ENCODE_BUILTIN_LITERAL
BuiltinLiteralSeq ==
  <<"bool", "char", "signed char", "unsigned char", "wchar_t", "char16_t",
    "char32_t", "short", "unsigned short", "int", "unsigned int", "long",
    "unsigned long", "long long", "unsigned long long">>

\* The terms the Solver specification works on, built bottom-up with the
\* constructors above (an operand is the address of an earlier node):
\*   1  x                          2  0                   3  2
\*   4  0 < x                      5  2 == x              6  0 > x
\*   7  false                      8  0 < x (untyped)     9  ADD(0 < x), unary
\*  10  !(0 < x)                  11  distinct(x, 0, 2)  12  a
\*  13  store(a, 0, 2)            14  select(13, 0)      15  const array of 2
\*  16  f(x)
\* followed by one untyped literal of each builtin literal type.
BaseHeap ==
  << ConstantExpr("Int", Decl("Int", "x")),
     LiteralExpr("Int", "int", 0),
     LiteralExpr("Int", "int", 2),
     BinaryExpr(LSS, "Bool", 2, 1),
     BinaryExpr(EQL, "Bool", 3, 1),
     BinaryExpr(GTR, "Bool", 2, 1),
     LiteralExpr("Bool", "bool", 0),
     UnsafeBinaryExpr("Bool", LSS, 2, 1),
     UnsafeUnaryExpr("Bool", ADD, 4),
     UnaryExpr(LNOT, "Bool", 4),
     NaryExpr(NEQ, "Bool", <<1, 2, 3>>),
     ConstantExpr("ArrIntInt", Decl("ArrIntInt", "a")),
     ArrayStoreExpr("ArrIntInt", 12, 2, 3),
     ArraySelectExpr("Int", 13, 2),
     ConstArrayExpr("ArrIntInt", 3),
     FuncAppExpr("Int", Decl("FuncIntInt", "f"), <<1>>) >>
  \o [i \in 1..Len(BuiltinLiteralSeq) |->
        UnsafeLiteralExpr("Int", BuiltinLiteralSeq[i], 1)]

\* the terms handed to add and unsafe_add
Assertable == 1..9

\* the terms the Solver specification encodes directly: false, the unary
\* node with a binary opcode, and !(0 < x)
EncodeTargets == {7, 9, 10}

\* ---------------------------------------------------------------- state
VARIABLES
  nodes,       \* the heap: the node at each address
  overrides,   \* the literal types whose hook the backend overrides
  frames,      \* the assertion stack, base frame first: sets of terms
  open,        \* push() calls minus pop() calls since construction or reset
  saved,       \* check() of the stack at each push() whose frame is open
  beforePush,  \* at a pop(): check() of the stack before the matching push()
  prevFrames,  \* the assertion stack before the last operation
  lastOp,      \* the last operation
  arg,         \* its term argument
  args,        \* the operand handles given to a constructor
  argT,        \* its type argument
  ret,         \* what it returned to its caller
  encErr,      \* the Error the encoding inside it ended with, if any
  calls,       \* the hook calls the encoded node itself issued
  violation,   \* a precondition assertion failed: the process is aborted
  handles,     \* the control block each handle variable of the client owns
  blocks,      \* the control blocks of std::shared_ptr: pointer, use count
  members,     \* the control blocks the operand handles of each node own
  deletes,     \* how often the node at each address was deleted
  solvers,     \* each solver's encoding in progress of a shared term
  m_flips,     \* Tracer::m_flips: the directions of the flips
  m_flip_iter, \* Tracer::m_flip_iter: a position in m_flips, or past its end
  m_guard      \* Tracer::m_guard: the handle of the guard term

vars ==
  <<nodes, overrides, frames, open, saved, beforePush, prevFrames, lastOp,
    arg, args, argT, ret, encErr, calls, violation, handles, blocks, members,
    deletes, solvers, m_flips, m_flip_iter, m_guard>>

lifeVars == <<handles, blocks, members, deletes>>

tracerVars == <<m_flips, m_flip_iter, m_guard>>

\* the state of the client's handle variables, of a second solver and of
\* the tracer: what an operation on the terms and the solver leaves alone
clientVars == <<lifeVars, solvers, tracerVars>>

solverVars == <<frames, open, saved, beforePush, prevFrames>>

RECURSIVE AssertCount(_)
AssertCount(fs) ==
  IF fs = << >> THEN 0 ELSE Cardinality(Head(fs)) + AssertCount(Tail(fs))

\* a freshly constructed Solver
\* no handle variable, no encoding in progress and no tracer are looked at
InitClient ==
  /\ handles = << >>
  /\ blocks = << >>
  /\ members = << >>
  /\ deletes = << >>
  /\ solvers = << >>
  /\ m_flips = << >>
  /\ m_flip_iter = 1
  /\ m_guard = 0

\* a Solver after construction, nothing called on it or on a term yet
InitCore ==
  /\ frames = <<{}>>
  /\ open = 0
  /\ saved = << >>
  /\ beforePush = "none"
  /\ prevFrames = <<{}>>
  /\ lastOp = "init"
  /\ arg = Null
  /\ args = << >>
  /\ argT = "none"
  /\ ret = "void"
  /\ encErr = "none"
  /\ calls = << >>
  /\ violation = FALSE

InitSolver ==
  /\ InitClient
  /\ InitCore

Init ==
  /\ nodes = BaseHeap
  /\ overrides \in Backends
  /\ InitSolver

\* the last operation took no term and encoded nothing
NoEncoding ==
  /\ arg' = Null
  /\ args' = << >>
  /\ argT' = "none"
  /\ encErr' = "none"
  /\ calls' = << >>

\* Solver::reset()
Reset ==
  /\ ~violation
  /\ frames' = ResetFrames(frames)
  /\ open' = 0
  /\ saved' = << >>
  /\ prevFrames' = frames
  /\ lastOp' = "reset"
  /\ UNCHANGED clientVars
  /\ ret' = "void"
  /\ NoEncoding
  /\ beforePush' = "none"
  /\ UNCHANGED <<nodes, overrides, violation>>

\* Solver::push()
Push ==
  /\ ~violation
  /\ Len(frames) <= MaxDepth
  /\ frames' = PushFrames(frames)
  /\ open' = open + 1
  /\ saved' = Append(saved, DecideFrames(nodes, frames))
  /\ prevFrames' = frames
  /\ lastOp' = "push"
  /\ UNCHANGED clientVars
  /\ ret' = "void"
  /\ NoEncoding
  /\ beforePush' = "none"
  /\ UNCHANGED <<nodes, overrides, violation>>

\* the last element of a sequence
Last(q) == IF q = << >> THEN "none" ELSE q[Len(q)]

\* Solver::pop()
Pop ==
  /\ ~violation
  /\ prevFrames' = frames
  /\ lastOp' = "pop"
  /\ UNCHANGED clientVars
  /\ ret' = "void"
  /\ NoEncoding
  /\ IF PopPre(frames)
     THEN /\ frames' = PopFrames(frames)
          /\ open' = open - 1
          /\ beforePush' = Last(saved)
          /\ saved' = SubSeq(saved, 1, Len(saved) - 1)
          /\ UNCHANGED violation
     ELSE /\ violation' = TRUE
          /\ beforePush' = "none"
          /\ UNCHANGED <<frames, open, saved>>
  /\ UNCHANGED <<nodes, overrides>>

\* Solver::add(condition), condition a Bool handle
Add(t) ==
  /\ ~violation
  /\ AssertCount(frames) < MaxAsserts
  /\ prevFrames' = frames
  /\ lastOp' = "add"
  /\ UNCHANGED clientVars
  /\ arg' = t
  /\ argT' = "Bool"
  /\ args' = << >>
  /\ calls' = << >>
  /\ beforePush' = "none"
  /\ IF is_null(t)
     THEN /\ violation' = TRUE
          /\ ret' = "none"
          /\ encErr' = "none"
          /\ UNCHANGED frames
     ELSE /\ frames' = AddFrames(nodes, overrides, frames, t)
          /\ encErr' = encode(nodes, overrides, TermToUnsafe(t))
          /\ ret' = AddReturn(encErr')
          /\ UNCHANGED violation
  /\ UNCHANGED <<nodes, overrides, open, saved>>

\* Solver::unsafe_add(condition), condition an untyped handle whose sort is
\* boolean
UnsafeAdd(u) ==
  /\ ~violation
  /\ AssertCount(frames) < MaxAsserts
  /\ prevFrames' = frames
  /\ lastOp' = "unsafe_add"
  /\ UNCHANGED clientVars
  /\ arg' = u
  /\ args' = << >>
  /\ argT' = "none"
  /\ calls' = << >>
  /\ beforePush' = "none"
  /\ frames' = UnsafeAddFrames(nodes, overrides, frames, u)
  /\ encErr' = encode(nodes, overrides, u)
  /\ ret' = AddReturn(encErr')
  /\ UNCHANGED <<nodes, overrides, open, saved, violation>>

\* Solver::check()
Check ==
  /\ ~violation
  /\ prevFrames' = frames
  /\ lastOp' = "check"
  /\ UNCHANGED clientVars
  /\ ret' = DecideFrames(nodes, frames)
  /\ NoEncoding
  /\ beforePush' = "none"
  /\ UNCHANGED <<nodes, overrides, frames, open, saved, violation>>

\* UnsafeTerm::encode(solver) called directly on the handle u
Encode(u) ==
  /\ ~violation
  /\ prevFrames' = frames
  /\ lastOp' = "encode"
  /\ UNCHANGED clientVars
  /\ arg' = u
  /\ args' = << >>
  /\ argT' = "none"
  /\ beforePush' = "none"
  /\ IF NullFree(nodes, u)
     THEN /\ calls' = NodeEncode(nodes[u])
          /\ encErr' = SolverHook(nodes, overrides, calls'[Len(calls')])
          /\ ret' = EncodeReturn(nodes, overrides, u)
          /\ UNCHANGED violation
     ELSE /\ violation' = TRUE
          /\ calls' = << >>
          /\ encErr' = "none"
          /\ ret' = "none"
  /\ UNCHANGED <<nodes, overrides, frames, open, saved>>

Next ==
  \/ Reset
  \/ Push
  \/ Pop
  \/ Check
  \/ \E t \in {Null} \cup {a \in Assertable : nodes[a].dyn = "Bool"} : Add(t)
  \/ \E u \in {a \in Assertable : sort(nodes[a].sort).is_bool} : UnsafeAdd(u)
  \/ \E u \in EncodeTargets : Encode(u)

Spec == Init /\ [][Next]_vars

\* ------------------------------------------------- encoding specification
\* Solver::encode_literal(sort, literal) called directly with a literal of
\* the builtin type ty
EncodeLiteral(S, ty, literal) ==
  /\ ~violation
  /\ lastOp' = "encode_literal"
  /\ UNCHANGED clientVars
  /\ arg' = Null
  /\ args' = << >>
  /\ argT' = ty
  /\ calls' = << >>
  /\ encErr' = encode_literal(overrides, S, ty, literal)
  /\ ret' = encErr'
  /\ UNCHANGED <<nodes, overrides, solverVars, violation>>

NextEncode ==
  \/ \E u \in DOMAIN nodes : Encode(u)
  \/ \E S \in {"Bool", "Int"}, ty \in BuiltinLiteralTypes, v \in {0, 1} :
       EncodeLiteral(S, ty, v)

\* every built term encoded, and every literal hook called, on a fresh Solver
SpecEncode == Init /\ [][NextEncode]_vars

\* --------------------------------------------------- builder specification
\* The leaves client code declares before it builds terms over them:
\*   1  any<Int>("x")              2  any<Bool>("b")
\*   3  any<Array<Int, Int>>("a")  4  literal(sort<Int>(), 1), untyped
LeafHeap ==
  << ConstantExpr("Int", Decl("Int", "x")),
     ConstantExpr("Bool", Decl("Bool", "b")),
     ConstantExpr("ArrIntInt", Decl("ArrIntInt", "a")),
     UnsafeLiteralExpr("Int", "int", 1) >>

InitBuild ==
  /\ nodes = LeafHeap
  /\ overrides = {}
  /\ InitSolver

\* the handles an UnsafeTerm variable can hold
UnsafeHandles(heap) == {Null} \cup DOMAIN heap

\* the handles of Int sort, typed or not, given to the untyped operators
IntSorted(heap) ==
  {Null} \cup {a \in DOMAIN heap : SortEq(heap[a].sort, "Int")}

\* client code builds terms while the program has not been aborted
CanBuild ==
  /\ ~violation
  /\ Len(nodes) < Len(LeafHeap) + MaxNodes

\* an allocation that moves the nodes allocated before by one place and
\* gives the new node the first place
AllocateFront(heap, ops, node) == <<node>> \o heap

\* an allocation that reuses the place of the node of the first operand
AllocateInPlace(heap, ops, node) ==
  IF ops # << >> /\ ops[1] \in DOMAIN heap
  THEN [heap EXCEPT ![ops[1]] = node]
  ELSE Append(heap, node)

\* new ...Expr(...) owned by a std::shared_ptr<const UnsafeExpr>: the node
\* built from the operand handles ops is placed at an address of its own
Allocate(heap, ops, node) == Append(heap, node)

\* a new-expression: the constructor runs on the operand handles ops; when
\* its assertions hold the node is allocated and its handle returned,
\* otherwise the program is aborted and no handle to a node exists
New(op, T, ops, pre, node) ==
  /\ lastOp' = op
  /\ UNCHANGED clientVars
  /\ args' = ops
  /\ argT' = T
  /\ arg' = Null
  /\ IF pre
     THEN /\ nodes' = Allocate(nodes, ops, node)
          /\ ret' = Len(nodes) + 1
          /\ UNCHANGED violation
     ELSE /\ nodes' = nodes
          /\ ret' = Null
          /\ violation' = TRUE
  /\ encErr' = "none"
  /\ calls' = << >>
  /\ UNCHANGED <<overrides, solverVars>>

\* literal<T, U>(literal)
BuildLiteral(T, U, v) ==
  /\ CanBuild
  /\ New("literal", T, << >>, TRUE, LiteralExpr(T, U, v))

\* literal(sort, literal)
BuildUnsafeLiteral(S, U, v) ==
  /\ CanBuild
  /\ New("unsafe_literal", "none", << >>, TRUE, UnsafeLiteralExpr(S, U, v))

\* operator-(T) and operator!(Bool)
BuildUnary(opcode, T, a) ==
  /\ CanBuild
  /\ New("unary", T, <<a>>, UnsafeUnaryExprPre(a), UnaryExpr(opcode, T, a))

\* the untyped unary operators: arg.sort() asserts a non-null handle
BuildUnsafeUnary(opcode, a) ==
  /\ CanBuild
  /\ New("unsafe_unary", "none", <<a>>,
      ~is_null(a) /\ UnsafeUnaryExprPre(a),
      UnsafeUnaryExpr(nodes[a].sort, opcode, a))

\* the typed binary operators, of result type T, and relations, of result
\* type Bool
BuildBinary(opcode, U, l, r) ==
  /\ CanBuild
  /\ New("binary", U, <<l, r>>, UnsafeBinaryExprPre(l, r),
      BinaryExpr(opcode, U, l, r))

\* the untyped binary operators: larg.sort() asserts a non-null handle
BuildUnsafeBinary(opcode, l, r) ==
  /\ CanBuild
  /\ New("unsafe_binary", "none", <<l, r>>,
      ~is_null(l) /\ UnsafeBinaryExprPre(l, r),
      UnsafeBinaryExpr(nodes[l].sort, opcode, l, r))

\* the untyped binary relations: the node has the Bool sort
BuildUnsafeRel(opcode, l, r) ==
  /\ CanBuild
  /\ New("unsafe_rel", "none", <<l, r>>, UnsafeBinaryExprPre(l, r),
      UnsafeBinaryExpr("Bool", opcode, l, r))

\* distinct(Terms<T>&&)
BuildDistinct(ops) ==
  /\ CanBuild
  /\ New("distinct", "Bool", ops, UnsafeNaryExprPre(ops),
      NaryExpr(NEQ, "Bool", ops))

\* new ConstArrayExpr<Int, Int>(init)
BuildConstArray(init) ==
  /\ CanBuild
  /\ New("const_array", "ArrIntInt", <<init>>, UnsafeConstArrayExprPre(init),
      ConstArrayExpr("ArrIntInt", init))

\* select(Array<Int, Int>, Int)
BuildSelect(array, index) ==
  /\ CanBuild
  /\ New("select", "Int", <<array, index>>,
      UnsafeArraySelectExprPre(array, index),
      ArraySelectExpr("Int", array, index))

\* store(Array<Int, Int>, Int, Int)
BuildStore(array, index, value) ==
  /\ CanBuild
  /\ New("store", "ArrIntInt", <<array, index, value>>,
      UnsafeArrayStoreExprPre(array, index, value),
      ArrayStoreExpr("ArrIntInt", array, index, value))

\* apply(Decl<Func<Int, Int>>, Int)
BuildApply(a) ==
  /\ CanBuild
  /\ New("apply", "Int", <<a>>, UnsafeFuncAppExprPre(<<a>>),
      FuncAppExpr("Int", Decl("FuncIntInt", "f"), <<a>>))

\* static_cast<T>(u) of the untyped handle u: UnsafeTerm::operator T()
Cast(u, T) ==
  /\ ~violation
  /\ lastOp' = "cast"
  /\ UNCHANGED clientVars
  /\ arg' = u
  /\ args' = << >>
  /\ argT' = T
  /\ ret' = UnsafeToTerm(nodes, u, T)
  /\ encErr' = "none"
  /\ calls' = << >>
  /\ UNCHANGED <<nodes, overrides, solverVars, violation>>

\* the sequences of at most two handles of type T
TermsOf(heap, T) ==
  {<< >>} \cup {<<a>> : a \in TypedHandles(heap, T)}
          \cup {<<a, b>> : a \in TypedHandles(heap, T),
                           b \in TypedHandles(heap, T)}

NextBuild ==
  \/ \E T \in {"Bool", "Int"} : BuildLiteral(T, "int", 1)
  \/ \E S \in {"Bool", "Int"} : BuildUnsafeLiteral(S, "int", 1)
  \/ \E a \in TypedHandles(nodes, "Int") : BuildUnary(SUB, "Int", a)
  \/ \E a \in TypedHandles(nodes, "Bool") : BuildUnary(LNOT, "Bool", a)
  \/ \E a \in UnsafeHandles(nodes) : BuildUnsafeUnary(SUB, a)
  \/ \E l, r \in TypedHandles(nodes, "Int") : BuildBinary(ADD, "Int", l, r)
  \/ \E l, r \in TypedHandles(nodes, "Int") : BuildBinary(LSS, "Bool", l, r)
  \/ \E l, r \in IntSorted(nodes) : BuildUnsafeBinary(ADD, l, r)
  \/ \E l, r \in IntSorted(nodes) : BuildUnsafeRel(LSS, l, r)
  \/ \E ops \in TermsOf(nodes, "Int") : BuildDistinct(ops)
  \/ \E init \in TypedHandles(nodes, "Int") : BuildConstArray(init)
  \/ \E array \in TypedHandles(nodes, "ArrIntInt"),
        index \in TypedHandles(nodes, "Int") : BuildSelect(array, index)
  \/ \E array \in TypedHandles(nodes, "ArrIntInt"),
        index \in TypedHandles(nodes, "Int"),
        value \in TypedHandles(nodes, "Int") :
          BuildStore(array, index, value)
  \/ \E a \in TypedHandles(nodes, "Int") : BuildApply(a)
  \/ \E u \in UnsafeHandles(nodes), T \in {"Bool", "Int", "ArrIntInt"} :
       Cast(u, T)

\* terms built over the declared leaves, and untyped handles cast back
SpecBuild == InitBuild /\ [][NextBuild]_vars

\* ------------------------------------------------------ claims: the Solver
\* C1: push/pop isolation.  After a pop() that removed a frame, check()
\* decides what it decided immediately before the matching push(); and while
\* a frame is open, the frames below it still decide what they decided when
\* it was pushed, whatever was asserted above them.
C1_PushPopIsolation ==
  /\ (lastOp = "pop" /\ ~violation) =>
       DecideFrames(nodes, frames) = beforePush
  /\ \A k \in 1..Len(saved) :
       k < Len(frames) => DecideFrames(nodes, SubSeq(frames, 1, k)) = saved[k]

\* a pop() of a nested frame whose assertions had made the stack unsat
C1_Witness ==
  /\ lastOp = "pop"
  /\ ~violation
  /\ Len(frames) = 2
  /\ prevFrames[Len(prevFrames)] # {}
  /\ DecideFrames(nodes, prevFrames) = unsat
  /\ DecideFrames(nodes, frames) = sat
  /\ frames[1] # {}

\* C2: reset() from any reachable state leaves exactly the empty base frame,
\* as on a freshly constructed Solver, so that check() is sat.
C2_ResetIsInitial ==
  lastOp = "reset" =>
    /\ frames = <<{}>>
    /\ open = 0
    /\ ~violation
    /\ DecideFrames(nodes, frames) = sat

\* a reset() of an unsat stack with a frame open and base assertions
C2_Witness ==
  /\ lastOp = "reset"
  /\ Len(prevFrames) > 1
  /\ prevFrames[1] # {}
  /\ DecideFrames(nodes, prevFrames) = unsat

\* C3: check() decides the conjunction of the assertions of all open frames:
\* it returns sat exactly when one model satisfies every assertion of every
\* frame, so two contradicting assertions in different frames make it unsat.
C3_CheckAllFrames ==
  lastOp = "check" =>
    /\ ret = sat <=>
         \E m \in Models :
           \A i \in 1..Len(frames) : \A a \in frames[i] : Eval(nodes, a, m)
    /\ (\E i, j \in 1..Len(frames) :
          /\ i < j
          /\ \E a \in frames[i], b \in frames[j] :
               ModelsOf(nodes, {a, b}) = {})
       => ret = unsat

\* check() is unsat although every frame alone is satisfiable
C3_Witness ==
  /\ lastOp = "check"
  /\ ret = unsat
  /\ Len(frames) >= 2
  /\ \A i \in 1..Len(frames) : ModelsOf(nodes, frames[i]) # {}
  /\ frames[1] # {}
  /\ frames[Len(frames)] # {}

\* C4: the stack always has its base frame, the number of frames is one more
\* than the pushes not yet popped, and a pop() with no frame open beyond the
\* base is a contract violation that removes nothing.
C4_PopAtBaseRejected ==
  /\ Len(frames) >= 1
  /\ Len(frames) = open + 1
  /\ (lastOp = "pop" /\ Len(prevFrames) = 1) =>
       (violation /\ frames = prevFrames /\ open = 0)
  /\ (lastOp = "pop" /\ Len(prevFrames) > 1) =>
       (~violation /\ Len(frames) = Len(prevFrames) - 1)

\* a rejected pop() on a base frame that holds assertions
C4_Witness ==
  /\ lastOp = "pop"
  /\ violation
  /\ Len(frames) = 1
  /\ frames[1] # {}

\* C5: add and unsafe_add change the topmost frame only, by the encoded
\* term, and unsafe_add of the untyped handle of a Bool term has the effect
\* of add of that term.
C5_AddTopFrameOnly ==
  /\ (lastOp \in {"add", "unsafe_add"} /\ ~violation) =>
       /\ Len(frames) = Len(prevFrames)
       /\ \A i \in 1..(Len(frames) - 1) : frames[i] = prevFrames[i]
       /\ frames[Len(frames)] =
            IF encErr = OK
            THEN prevFrames[Len(frames)] \cup {arg}
            ELSE prevFrames[Len(frames)]
  /\ \A t \in TypedHandles(nodes, "Bool") \cap Assertable :
       AddFrames(nodes, overrides, frames, t)
         = UnsafeAddFrames(nodes, overrides, frames, TermToUnsafe(t))

\* an unsafe_add that put a new assertion in a pushed frame above a
\* non-empty base frame
C5_Witness ==
  /\ lastOp = "unsafe_add"
  /\ Len(frames) > 1
  /\ frames[1] # {}
  /\ arg \in frames[Len(frames)]
  /\ arg \notin prevFrames[Len(frames)]
  /\ arg \notin frames[1]

\* C6: whenever the encoding inside a direct encode call, add or unsafe_add
\* ends with OPCODE_ERROR or UNSUPPORT_ERROR, the caller receives that error
\* as the returned value and the Solver is not aborted.
C6_EncodeErrorReturned ==
  (lastOp \in {"encode", "add", "unsafe_add"}
     /\ encErr \in {OPCODE_ERROR, UNSUPPORT_ERROR})
  => (ret = encErr /\ ~violation)

\* ------------------------------------------------ claims: encode dispatch
\* the Solver hook of each node kind
HookOfKind(kind) ==
  CASE kind = LITERAL_EXPR_KIND -> "encode_literal"
    [] kind = CONSTANT_EXPR_KIND -> "encode_constant"
    [] kind = FUNC_APP_EXPR_KIND -> "encode_func_app"
    [] kind = UNARY_EXPR_KIND -> "encode_unary"
    [] kind = BINARY_EXPR_KIND -> "encode_binary"
    [] kind = NARY_EXPR_KIND -> "encode_nary"
    [] kind = CONST_ARRAY_EXPR_KIND -> "encode_const_array"
    [] kind = ARRAY_SELECT_EXPR_KIND -> "encode_array_select"
    [] kind = ARRAY_STORE_EXPR_KIND -> "encode_array_store"

\* C7: encode(solver) of a node invokes exactly one hook, the one of the
\* node's kind, with the node's own opcode, sort, declaration, literal and
\* operand handles in their stored order, and returns the hook's Error.
C7_DoubleDispatch ==
  (lastOp = "encode" /\ ~violation) =>
    LET n == nodes[arg]
        c == calls[1]
    IN /\ Len(calls) = 1
       /\ c.hook = HookOfKind(n.kind)
       /\ c.args = n.operands
       /\ n.kind \in {UNARY_EXPR_KIND, BINARY_EXPR_KIND, NARY_EXPR_KIND}
            => c.opcode = n.opcode
       /\ n.kind \in {LITERAL_EXPR_KIND, UNARY_EXPR_KIND, BINARY_EXPR_KIND,
                      NARY_EXPR_KIND, CONST_ARRAY_EXPR_KIND}
            => c.sort = n.sort
       /\ n.kind \in {CONSTANT_EXPR_KIND, FUNC_APP_EXPR_KIND}
            => c.decl = n.decl
       /\ n.kind = FUNC_APP_EXPR_KIND => c.arity = Len(n.operands)
       /\ n.kind = LITERAL_EXPR_KIND
            => (c.littype = n.littype /\ c.litval = n.litval)
       /\ ret = encErr

\* a binary node with two different operands whose encoding failed in an
\* operand: the hook's error came back
C7_Witness ==
  /\ lastOp = "encode"
  /\ nodes[arg].kind = BINARY_EXPR_KIND
  /\ nodes[arg].operands[1] # nodes[arg].operands[2]
  /\ calls[1].args = nodes[arg].operands
  /\ ret = UNSUPPORT_ERROR

\* C8: a literal of a builtin type whose literal hook the backend does not
\* override: encode_literal returns UNSUPPORT_ERROR, and so does encode of a
\* literal node of that type.
C8_LiteralUnsupported ==
  /\ (lastOp = "encode_literal" /\ argT \notin overrides)
       => ret = UNSUPPORT_ERROR
  /\ (lastOp = "encode"
        /\ nodes[arg].kind = LITERAL_EXPR_KIND
        /\ nodes[arg].littype \notin overrides)
       => ret = UNSUPPORT_ERROR
  /\ \A ty \in BuiltinLiteralTypes \ overrides :
       encode_literal(overrides, "Int", ty, 1) = UNSUPPORT_ERROR

\* a literal node of a type the backend does not override, on a backend
\* that overrides other literal hooks
C8_Witness ==
  /\ lastOp = "encode"
  /\ nodes[arg].kind = LITERAL_EXPR_KIND
  /\ nodes[arg].littype = "char16_t"
  /\ overrides # {}
  /\ ret = UNSUPPORT_ERROR

\* ---------------------------------------------------- claims: the builders
\* the kinds of node a typed builder returns, each with its result type
TypedOps == {"literal", "unary", "binary", "distinct", "const_array",
             "select", "store", "apply"}

\* C9 (as stated): the cast of an untyped handle to Term<T> yields the same
\* node when the node's runtime sort equals the sort of T, and a null handle
\* otherwise.
C9_CastBySort ==
  lastOp = "cast" =>
    /\ ~violation
    /\ ret = IF arg # Null /\ SortEq(nodes[arg].sort, argT)
             THEN arg ELSE Null

\* C9 (amended): the cast of an untyped handle to Term<T> never aborts; it
\* yields a handle to the same node exactly when the handle is non-null and
\* the node was built as an Expr<T>, and a null handle otherwise: for a null
\* handle, for a node of another sort, and for a node of T's sort built by
\* the untyped builders.  typed -> untyped -> typed with the same T is the
\* identity on the node.
C9_CastByClass ==
  /\ lastOp = "cast" =>
       /\ ~violation
       /\ ret \in {Null, arg}
       /\ arg = Null => ret = Null
       /\ (arg # Null /\ ~SortEq(nodes[arg].sort, argT)) => ret = Null
       /\ (arg # Null /\ nodes[arg].dyn = "none") => ret = Null
       /\ (arg # Null /\ nodes[arg].dyn = argT) => ret = arg
  /\ (lastOp \in TypedOps /\ ~violation) =>
       UnsafeToTerm(nodes, TermToUnsafe(ret), argT) = ret
  /\ \A T \in Types : \A t \in TypedHandles(nodes, T) :
       UnsafeToTerm(nodes, TermToUnsafe(t), T) = t

\* the cast to Bool of an untyped relation node, whose sort is Bool
C9_Witness ==
  /\ lastOp = "cast"
  /\ argT = "Bool"
  /\ arg # Null
  /\ nodes[arg].kind = BINARY_EXPR_KIND
  /\ nodes[arg].dyn = "none"
  /\ SortEq(nodes[arg].sort, "Bool")
  /\ ret = Null

\* C10: no node has a null operand, and a constructor or builder given a
\* null handle as an operand aborts without yielding a term.
C10_NoNullOperand ==
  /\ \A a \in DOMAIN nodes :
       \A i \in 1..Len(nodes[a].operands) : nodes[a].operands[i] # Null
  /\ (\E i \in 1..Len(args) : args[i] = Null) =>
       (violation /\ is_null(ret))

\* --------------------------------------------------- handle specification
\* what a member function of a handle hands back: the kind, the sort, the
\* Error, the truth value or the address it returns (ref() returns the node,
\* named by its address); returned is false when the call never returns
Out(returned, kind, S, err, truth, address) ==
  [returned |-> returned, kind |-> kind, sort |-> S, err |-> err,
   truth |-> truth, addr |-> address]

NoOut == Out(FALSE, "none", "none", "none", FALSE, Null)

\* the member functions of UnsafeTerm, and those of internal::Term<T>
UnsafeTermOps == {"is_null", "addr", "ref", "expr_kind", "sort", "encode"}
TermOps == {"is_null", "addr", "ref", "expr_kind", "sort"}

\* a dereference that asserts nothing
DerefPreNone(h) == TRUE

\* assert(!is_null()) at the head of ref, expr_kind, sort and encode
DerefPre(h) == ~is_null(h)

\* m_ptr.get() reinterpreted as an integer: the node's address
addr(h) == h

\* the node a handle points to; what is read through a null pointer is not
\* a node
Pointee(heap, h) ==
  IF h \in DOMAIN heap THEN heap[h]
  ELSE Node("none", "none", "none", "none", << >>, NoDecl, "none", 0)

\* the value the member function op returns on the handle h
HandleOut(heap, ov, op, h) ==
  CASE op = "is_null" -> Out(TRUE, "none", "none", "none", is_null(h), Null)
    [] op = "addr" -> Out(TRUE, "none", "none", "none", FALSE, addr(h))
    [] op = "ref" -> Out(TRUE, "none", "none", "none", FALSE, h)
    [] op = "expr_kind" ->
         Out(TRUE, Pointee(heap, h).kind, "none", "none", FALSE, Null)
    [] op = "sort" ->
         Out(TRUE, "none", Pointee(heap, h).sort, "none", FALSE, Null)
    [] op = "encode" ->
         Out(TRUE, "none", "none",
             IF h \in DOMAIN heap THEN encode(heap, ov, h) ELSE "none",
             FALSE, Null)

\* a member function called on a handle; T is the T of a Term<T> handle and
\* "none" for an UnsafeTerm
HandleCall(op, T, h) ==
  /\ ~violation
  /\ lastOp' = op
  /\ UNCHANGED clientVars
  /\ arg' = h
  /\ args' = << >>
  /\ argT' = T
  /\ encErr' = "none"
  /\ calls' = << >>
  /\ IF op \in {"is_null", "addr"} \/ DerefPre(h)
     THEN /\ ret' = HandleOut(nodes, overrides, op, h)
          /\ UNCHANGED violation
     ELSE /\ ret' = NoOut
          /\ violation' = TRUE
  /\ UNCHANGED <<nodes, overrides, solverVars>>

NextHandle ==
  \/ \E op \in UnsafeTermOps, h \in UnsafeHandles(nodes) :
       HandleCall(op, "none", h)
  \/ \E op \in TermOps, T \in Types :
       \E h \in TypedHandles(nodes, T) : HandleCall(op, T, h)

\* the member functions of the handles of every built term and of the null
\* handles
SpecHandle == Init /\ [][NextHandle]_vars

\* C11: ref(), expr_kind(), sort() and encode() on a null handle, typed or
\* untyped, abort and return nothing; is_null() and addr() return on a null
\* handle, is_null() true and addr() 0; on a handle with a node the
\* dereferencing functions return the node's own kind, sort and address.
C11_NullDeref ==
  lastOp \in UnsafeTermOps =>
    /\ (is_null(arg) /\ lastOp \in {"ref", "expr_kind", "sort", "encode"})
         => (violation /\ ~ret.returned)
    /\ (is_null(arg) /\ lastOp = "is_null")
         => (~violation /\ ret.returned /\ ret.truth)
    /\ (is_null(arg) /\ lastOp = "addr")
         => (~violation /\ ret.returned /\ ret.addr = 0)
    /\ ~is_null(arg) =>
         /\ ~violation
         /\ ret.returned
         /\ lastOp = "is_null" => ~ret.truth
         /\ lastOp = "addr" => ret.addr # 0
         /\ lastOp = "expr_kind" => ret.kind = nodes[arg].kind
         /\ lastOp = "sort" => ret.sort = nodes[arg].sort

\* sort() on a null typed handle
C11_Witness ==
  /\ lastOp = "sort"
  /\ argT = "Bool"
  /\ is_null(arg)
  /\ violation

\* ----------------------------------------------------- sort specification
\* a == b on two Sort objects
SortCompare(S, T) ==
  /\ ~violation
  /\ lastOp' = "sort_eq"
  /\ UNCHANGED clientVars
  /\ arg' = Null
  /\ args' = <<S, T>>
  /\ argT' = "none"
  /\ encErr' = "none"
  /\ calls' = << >>
  /\ ret' = Out(TRUE, "none", "none", "none", SortEq(S, T), Null)
  /\ UNCHANGED <<nodes, overrides, solverVars, violation>>

\* s.sorts(index) on a Sort object: the nested Sort, or std::out_of_range
\* thrown to the caller
SortNested(S, index) ==
  /\ ~violation
  /\ lastOp' = "sorts"
  /\ UNCHANGED clientVars
  /\ arg' = index
  /\ args' = <<S>>
  /\ argT' = "none"
  /\ encErr' = "none"
  /\ calls' = << >>
  /\ ret' = IF sorts(S, index) = "out_of_range"
            THEN Out(FALSE, "none", "none", "out_of_range", FALSE, Null)
            ELSE Out(TRUE, "none", sorts(S, index), "none", FALSE, Null)
  /\ UNCHANGED <<nodes, overrides, solverVars, violation>>

NextSort ==
  \/ \E S \in SortNames, T \in SortNames : SortCompare(S, T)
  \/ \E S \in SortNames, index \in 0..MaxIndex : SortNested(S, index)

\* every pair of Sort objects compared, every Sort object indexed
SpecSort == Init /\ [][NextSort]_vars

\* structural equality of two Sort values: every flag, the signedness, the
\* bit-vector size, and the nested sorts, element by element
RECURSIVE Structural(_, _)
Structural(a, b) ==
  /\ a.is_bool = b.is_bool
  /\ a.is_int = b.is_int
  /\ a.is_real = b.is_real
  /\ a.is_bv = b.is_bv
  /\ a.is_signed = b.is_signed
  /\ a.bv_size = b.bv_size
  /\ a.is_array = b.is_array
  /\ a.is_func = b.is_func
  /\ a.is_tuple = b.is_tuple
  /\ Len(a.sorts) = Len(b.sorts)
  /\ \A i \in 1..Len(a.sorts) :
       Structural(SortObj(a.sorts[i]), SortObj(b.sorts[i]))

\* C12: two Sort values compare equal if and only if they are structurally
\* equal, also when they are distinct objects whose nested-sort sequences
\* are stored in different places.
C12_SortEqStructural ==
  lastOp = "sort_eq" =>
    (ret.truth <=> Structural(SortObj(args[1]), SortObj(args[2])))

\* C13: sorts(i) returns the i-th nested sort when i is smaller than the
\* number of nested sorts and throws std::out_of_range for every other i; on
\* a primitive sort every index throws.
C13_SortsIndex ==
  lastOp = "sorts" =>
    LET nested == SortObj(args[1]).sorts
    IN /\ ~violation
       /\ arg < Len(nested) =>
            (ret.returned /\ ret.sort = nested[arg + 1] /\ ret.err = "none")
       /\ arg >= Len(nested) =>
            (~ret.returned /\ ret.err = "out_of_range")
       /\ args[1] \in PrimTypes => ~ret.returned

\* the index one past the range sort of Func<Int, Int>
C13_Witness ==
  /\ lastOp = "sorts"
  /\ args[1] = "FuncIntInt"
  /\ arg = 2
  /\ ~ret.returned
  /\ ret.err = "out_of_range"

\* ------------------------------------------------- operator specification
\* The leaves the operators are applied to:
\*   1  any<Int>("x")             2  any<Bool>("b")
\*   3  any<Bv<unsigned char>>("u")
\*   4  literal(sort<Int>(), 1), untyped
OpLeafHeap ==
  << ConstantExpr("Int", Decl("Int", "x")),
     ConstantExpr("Bool", Decl("Bool", "b")),
     ConstantExpr("BvU8", Decl("BvU8", "u")),
     UnsafeLiteralExpr("Int", "int", 1) >>

InitOps ==
  /\ nodes = OpLeafHeap
  /\ overrides = {}
  /\ InitSolver

\* the operators of each macro
RelOpcodes == {LSS, GTR, NEQ, LEQ, GEQ, EQL}
ArithOpcodes == {SUB, ADD, MUL, QUO, REM}
BvOpcodes == {AND, OR, XOR}

\* the terms of static type T that exist
TermsOfType(heap, T) == TypedHandles(heap, T) \ {Null}

\* the terms given to the untyped operators: those that are not of Bool sort
UnsafeOperands(heap) ==
  {a \in DOMAIN heap : ~SortEq(heap[a].sort, "Bool")}

\* client code applies operators while the program has not been aborted
CanOperate ==
  /\ ~violation
  /\ Len(nodes) < Len(OpLeafHeap) + MaxNodes

\* one operator call on the term operand term: the nodes news are allocated
\* in their order, each an operand of the next, and the handle of the last
\* one is returned
Alloc(op, T, term, pre, news) ==
  /\ lastOp' = op
  /\ UNCHANGED clientVars
  /\ arg' = term
  /\ argT' = T
  /\ IF pre
     THEN /\ nodes' = nodes \o news
          /\ ret' = Len(nodes) + Len(news)
          /\ args' = news[Len(news)].operands
          /\ UNCHANGED violation
     ELSE /\ nodes' = nodes
          /\ ret' = Null
          /\ args' = << >>
          /\ violation' = TRUE
  /\ encErr' = "none"
  /\ calls' = << >>
  /\ UNCHANGED <<overrides, solverVars>>

\* the two operands of an operator given a term and a raw scalar: the
\* scalar's literal node is allocated at the address lit
ScalarPair(side, term, lit) ==
  IF side = "right" THEN <<term, lit>> ELSE <<lit, term>>

\* a typed relation whose node has the sort of its operands
BuiltinBinaryRelAsOp(opcode, T, l, r) == BinaryExpr(opcode, T, l, r)

\* SMT_BUILTIN_BINARY_REL: new BinaryExpr<opcode, T, Bool>(larg, rarg)
BuiltinBinaryRel(opcode, T, l, r) == BinaryExpr(opcode, "Bool", l, r)

\* SMT_BUILTIN_BINARY_OP and SMT_BUILTIN_BV_BINARY_OP:
\* new BinaryExpr<opcode, T>(larg, rarg)
BuiltinBinaryOp(opcode, T, l, r) == BinaryExpr(opcode, T, l, r)

\* SMT_BUILTIN_UNARY_OP and SMT_BUILTIN_BV_UNARY_OP:
\* new UnaryExpr<opcode, T>(arg)
BuiltinUnaryOp(opcode, T, a) == UnaryExpr(opcode, T, a)

\* an untyped unary operator whose node has the Bool sort
UnsafeUnaryOpBool(heap, opcode, a) == UnsafeUnaryExpr("Bool", opcode, a)

\* SMT_UNSAFE_UNARY_OP: new UnsafeUnaryExpr(arg.sort(), opcode, arg)
UnsafeUnaryOp(heap, opcode, a) ==
  UnsafeUnaryExpr(Pointee(heap, a).sort, opcode, a)

\* SMT_UNSAFE_BINARY_OP: the node has the sort of the term operand term
UnsafeBinaryOp(heap, opcode, term, l, r) ==
  UnsafeBinaryExpr(Pointee(heap, term).sort, opcode, l, r)

\* SMT_UNSAFE_BINARY_REL: the node has the sort of Bool
UnsafeBinaryRel(opcode, l, r) ==
  UnsafeBinaryExpr("Bool", opcode, l, r)

\* operator-(T) and operator~(Bv<T>)
TypedUnary(opcode, T, a) ==
  /\ CanOperate
  /\ Alloc("typed_unary", T, a, UnsafeUnaryExprPre(a),
           <<BuiltinUnaryOp(opcode, T, a)>>)

\* T op T
TypedOp(opcode, T, l, r) ==
  /\ CanOperate
  /\ Alloc("typed_op", T, l, UnsafeBinaryExprPre(l, r),
           <<BuiltinBinaryOp(opcode, T, l, r)>>)

\* T op scalar and scalar op T: larg op literal<T, U>(rscalar)
TypedOpScalar(opcode, T, a, side) ==
  /\ CanOperate
  /\ LET p == ScalarPair(side, a, Len(nodes) + 1)
     IN Alloc("typed_op_scalar", T, a, UnsafeBinaryExprPre(p[1], p[2]),
              <<LiteralExpr(T, "int", 1),
                BuiltinBinaryOp(opcode, T, p[1], p[2])>>)

\* T rel T
TypedRel(opcode, T, l, r) ==
  /\ CanOperate
  /\ Alloc("typed_rel", T, l, UnsafeBinaryExprPre(l, r),
           <<BuiltinBinaryRel(opcode, T, l, r)>>)

\* T rel scalar and scalar rel T
TypedRelScalar(opcode, T, a, side) ==
  /\ CanOperate
  /\ LET p == ScalarPair(side, a, Len(nodes) + 1)
     IN Alloc("typed_rel_scalar", T, a, UnsafeBinaryExprPre(p[1], p[2]),
              <<LiteralExpr(T, "int", 1),
                BuiltinBinaryRel(opcode, T, p[1], p[2])>>)

\* the untyped unary operators; arg.sort() asserts a non-null handle
UnsafeUnary(opcode, a) ==
  /\ CanOperate
  /\ Alloc("unsafe_unary", "none", a, ~is_null(a) /\ UnsafeUnaryExprPre(a),
           <<UnsafeUnaryOp(nodes, opcode, a)>>)

\* UnsafeTerm op UnsafeTerm; larg.sort() asserts a non-null handle
UnsafeOp(opcode, l, r) ==
  /\ CanOperate
  /\ Alloc("unsafe_op", "none", l, ~is_null(l) /\ UnsafeBinaryExprPre(l, r),
           <<UnsafeBinaryOp(nodes, opcode, l, l, r)>>)

\* UnsafeTerm op scalar and scalar op UnsafeTerm: the scalar becomes
\* literal(term.sort(), scalar)
UnsafeOpScalar(opcode, a, side) ==
  /\ CanOperate
  /\ LET p == ScalarPair(side, a, Len(nodes) + 1)
     IN Alloc("unsafe_op_scalar", "none", a, ~is_null(a),
              <<UnsafeLiteralExpr(Pointee(nodes, a).sort, "int", 1),
                UnsafeBinaryOp(nodes, opcode, a, p[1], p[2])>>)

\* UnsafeTerm rel UnsafeTerm
UnsafeRel(opcode, l, r) ==
  /\ CanOperate
  /\ Alloc("unsafe_rel", "none", l, UnsafeBinaryExprPre(l, r),
           <<UnsafeBinaryRel(opcode, l, r)>>)

\* UnsafeTerm rel scalar and scalar rel UnsafeTerm
UnsafeRelScalar(opcode, a, side) ==
  /\ CanOperate
  /\ LET p == ScalarPair(side, a, Len(nodes) + 1)
     IN Alloc("unsafe_rel_scalar", "none", a, ~is_null(a),
              <<UnsafeLiteralExpr(Pointee(nodes, a).sort, "int", 1),
                UnsafeBinaryRel(opcode, p[1], p[2])>>)

Sides == {"left", "right"}

NextOps ==
  \/ \E T \in {"Int", "BvU8"} : \E a \in TermsOfType(nodes, T) :
       TypedUnary(SUB, T, a)
  \/ \E a \in TermsOfType(nodes, "BvU8") : TypedUnary(NOT, "BvU8", a)
  \/ \E opcode \in ArithOpcodes, T \in {"Int", "BvU8"} :
       \E l, r \in TermsOfType(nodes, T) : TypedOp(opcode, T, l, r)
  \/ \E opcode \in BvOpcodes : \E l, r \in TermsOfType(nodes, "BvU8") :
       TypedOp(opcode, "BvU8", l, r)
  \/ \E opcode \in ArithOpcodes, T \in {"Int", "BvU8"}, side \in Sides :
       \E a \in TermsOfType(nodes, T) : TypedOpScalar(opcode, T, a, side)
  \/ \E opcode \in BvOpcodes, side \in Sides :
       \E a \in TermsOfType(nodes, "BvU8") :
         TypedOpScalar(opcode, "BvU8", a, side)
  \/ \E opcode \in RelOpcodes, T \in {"Int", "BvU8"} :
       \E l, r \in TermsOfType(nodes, T) : TypedRel(opcode, T, l, r)
  \/ \E opcode \in RelOpcodes, T \in {"Int", "BvU8"}, side \in Sides :
       \E a \in TermsOfType(nodes, T) : TypedRelScalar(opcode, T, a, side)
  \/ \E opcode \in {SUB, NOT} : \E a \in UnsafeOperands(nodes) :
       UnsafeUnary(opcode, a)
  \/ \E opcode \in ArithOpcodes \cup BvOpcodes :
       \E l, r \in UnsafeOperands(nodes) : UnsafeOp(opcode, l, r)
  \/ \E opcode \in ArithOpcodes \cup BvOpcodes, side \in Sides :
       \E a \in UnsafeOperands(nodes) : UnsafeOpScalar(opcode, a, side)
  \/ \E opcode \in RelOpcodes : \E l, r \in UnsafeOperands(nodes) :
       UnsafeRel(opcode, l, r)
  \/ \E opcode \in RelOpcodes, side \in Sides :
       \E a \in UnsafeOperands(nodes) : UnsafeRelScalar(opcode, a, side)

\* the typed and the untyped operators applied to terms and raw scalars
SpecOps == InitOps /\ [][NextOps]_vars

\* the calls of the typed operators
TypedOperatorCalls ==
  {"typed_unary", "typed_op", "typed_op_scalar", "typed_rel",
   "typed_rel_scalar"}

\* the calls of the untyped operators
UnsafeOperatorCalls ==
  {"unsafe_unary", "unsafe_op", "unsafe_op_scalar", "unsafe_rel",
   "unsafe_rel_scalar"}

\* C14: the node a relational operator returns has the Bool sort, and the
\* node an arithmetic or bitwise operator returns has the sort of its term
\* operand, for the typed and the untyped operators, applied to two terms
\* or to a term and a raw scalar.
C14_OperatorSorts ==
  (lastOp \in TypedOperatorCalls \cup UnsafeOperatorCalls /\ ~violation) =>
    LET n == nodes[ret]
    IN /\ n.operands = args
       /\ arg \in {args[i] : i \in 1..Len(args)}
       /\ n.opcode \in RelOpcodes =>
            /\ SortEq(n.sort, "Bool")
            /\ lastOp \in TypedOperatorCalls => n.dyn = "Bool"
       /\ n.opcode \in ArithOpcodes \cup BvOpcodes \cup {NOT} =>
            /\ SortEq(n.sort, nodes[arg].sort)
            /\ lastOp \in TypedOperatorCalls =>
                 /\ n.dyn = argT
                 /\ \A i \in 1..Len(args) :
                      SortEq(n.sort, nodes[args[i]].sort)
       /\ lastOp \in {"typed_rel", "typed_rel_scalar", "unsafe_rel",
                      "unsafe_rel_scalar"} => n.opcode \in RelOpcodes

\* an untyped >= of a raw scalar and a bit-vector term
C14_Witness ==
  /\ lastOp = "unsafe_rel_scalar"
  /\ nodes[ret].opcode = GEQ
  /\ nodes[arg].sort = "BvU8"
  /\ args[2] = arg
  /\ nodes[args[1]].kind = LITERAL_EXPR_KIND
  /\ nodes[args[1]].sort = "BvU8"
  /\ nodes[ret].sort = "Bool"

\* ------------------------------------- function application specification
\* The leaves function applications take as arguments:
\*   1  any<Int>("x")   2  any<Bool>("b")   3  any<Bv<unsigned char>>("u")
FuncLeafHeap ==
  << ConstantExpr("Int", Decl("Int", "x")),
     ConstantExpr("Bool", Decl("Bool", "b")),
     ConstantExpr("BvU8", Decl("BvU8", "u")) >>

InitFunc ==
  /\ nodes = FuncLeafHeap
  /\ overrides = {}
  /\ InitSolver

\* the number of arguments of a function of type F
Arity(F) == Len(FuncParams(F)) - 1

\* Func<T...>::Range, the last of T...
Range(F) == FuncParams(F)[Len(FuncParams(F))]

\* FuncAppExpr<T...>::Args: one term of each argument type, in order
ArgTuples(heap, F) ==
  {t \in [1..Arity(F) -> UnsafeHandles(heap)] :
     \A i \in 1..Arity(F) : t[i] \in TypedHandles(heap, FuncParams(F)[i])}

\* std::array<UnsafeTerm, arity>: any arity handles
UnsafeArgTuples(heap, arity) == [1..arity -> UnsafeHandles(heap)]

\* the sort of an untyped select taken from the first nested sort
UnsafeArraySelectSortFirst(heap, array) == sorts(heap[array].sort, 0)

\* UnsafeArraySelectExpr::UnsafeArraySelectExpr: array.sort().sorts(1), the
\* nested Sort or std::out_of_range
UnsafeArraySelectSort(heap, array) == sorts(heap[array].sort, 1)

\* UnsafeArrayStoreExpr::UnsafeArrayStoreExpr: array.sort()
UnsafeArrayStoreSort(heap, array) == heap[array].sort

\* a sort of the application taken one place before the arity
UnsafeFuncAppSortBefore(func_decl, arity) == sorts(func_decl.sort, arity - 1)

\* UnsafeFuncAppExpr's initializer of its UnsafeExpr base:
\* func_decl.sort().sorts(arity)
UnsafeFuncAppSort(func_decl, arity) == sorts(func_decl.sort, arity)

\* client code applies functions while the program has not been aborted
CanApply ==
  /\ ~violation
  /\ Len(nodes) < Len(FuncLeafHeap) + MaxNodes

\* one function application: the node, if the constructor returns, is
\* allocated and its handle returned
Applied(op, F, t, S, node) ==
  /\ lastOp' = op
  /\ UNCHANGED clientVars
  /\ arg' = Len(t)
  /\ args' = t
  /\ argT' = F
  /\ encErr' = "none"
  /\ calls' = << >>
  /\ IF S = "out_of_range"
     THEN /\ nodes' = nodes
          /\ ret' = Out(FALSE, "none", "none", "out_of_range", FALSE, Null)
     ELSE /\ nodes' = Append(nodes, node)
          /\ ret' = Out(TRUE, node.kind, node.sort, "none", FALSE,
                        Len(nodes) + 1)
  /\ UNCHANGED <<overrides, solverVars, violation>>

\* apply(const Decl<Func<T...>>&, const Args&):
\* new FuncAppExpr<T...>(func_decl, args)
Apply(F, t) ==
  /\ CanApply
  /\ Applied("apply", F, t, Range(F),
             FuncAppExpr(Range(F), Decl(F, "f"), t))

\* UnsafeFuncAppExpr<arity>(func_decl, std::move(args)) with as many
\* arguments as the function has
UnsafeApply(F, t) ==
  /\ CanApply
  /\ LET func_decl == UnsafeDecl("f", F)
         S == UnsafeFuncAppSort(func_decl, Len(t))
     IN Applied("unsafe_apply", F, t, S,
                UnsafeFuncAppExpr(S, func_decl, t))

NextFunc ==
  \/ \E F \in FuncTypes, index \in 0..MaxIndex : SortNested(F, index)
  \/ \E F \in FuncTypes : \E t \in ArgTuples(nodes, F) : Apply(F, t)
  \/ \E F \in FuncTypes : \E t \in UnsafeArgTuples(nodes, Arity(F)) :
       UnsafeApply(F, t)

\* function declarations' sorts and typed and untyped applications
SpecFunc == InitFunc /\ [][NextFunc]_vars

\* C15: the sort of a function declaration with n argument types and a
\* range type has n+1 nested sorts, the i-th argument's sort at i < n and
\* the range sort at n; a typed or untyped application of the declaration to
\* n arguments is a node whose sort is sorts(n), the range sort.
C15_FuncSorts ==
  /\ (lastOp = "sorts" /\ args[1] \in FuncTypes) =>
       LET F == args[1]
           n == Arity(F)
       IN /\ Len(SortObj(F).sorts) = n + 1
          /\ SortObj(F).is_func
          /\ arg < n => (ret.returned /\ ret.sort = FuncParams(F)[arg + 1])
          /\ arg = n => (ret.returned /\ ret.sort = Range(F))
          /\ arg > n => ~ret.returned
  /\ lastOp \in {"apply", "unsafe_apply"} =>
       /\ ret.returned
       /\ ret.addr = Len(nodes)
       /\ arg = Arity(argT)
       /\ nodes[ret.addr].kind = FUNC_APP_EXPR_KIND
       /\ nodes[ret.addr].operands = args
       /\ nodes[ret.addr].decl.sort = argT
       /\ nodes[ret.addr].sort = sorts(argT, arg)
       /\ SortEq(nodes[ret.addr].sort, Range(argT))
       /\ ret.sort = nodes[ret.addr].sort

\* an untyped application of a Func<Bool, Int, Bv<unsigned char>>
\* declaration to two terms
C15_Witness ==
  /\ lastOp = "unsafe_apply"
  /\ argT = "FuncBoolIntBvU8"
  /\ args = <<2, 1>>
  /\ ret.returned
  /\ nodes[ret.addr].sort = "BvU8"
  /\ nodes[ret.addr].dyn = "none"

\* ------------------------------------------------ sharing specification
\* UnsafeTerm(const UnsafeTerm&), UnsafeTerm::operator= and the same members
\* of Term<T>: the new handle holds the pointer of the other one
HandleCopy(h) ==
  /\ ~violation
  /\ lastOp' = "copy"
  /\ UNCHANGED clientVars
  /\ arg' = h
  /\ args' = << >>
  /\ argT' = "none"
  /\ ret' = h
  /\ encErr' = "none"
  /\ calls' = << >>
  /\ UNCHANGED <<nodes, overrides, solverVars, violation>>

\* UnsafeTerm::encode(solver) on a built term: the const member function
\* UnsafeExpr::encode runs on the node and on the nodes of its operands
EncodeBuilt(u) ==
  /\ ~violation
  /\ lastOp' = "encode"
  /\ UNCHANGED clientVars
  /\ arg' = u
  /\ args' = << >>
  /\ argT' = "none"
  /\ ret' = u
  /\ calls' = << >>
  /\ IF NullFree(nodes, u)
     THEN /\ encErr' = EncodeReturn(nodes, overrides, u)
          /\ UNCHANGED violation
     ELSE /\ encErr' = "none"
          /\ violation' = TRUE
  /\ UNCHANGED <<nodes, overrides, solverVars>>

NextShare ==
  \/ NextBuild
  \/ \E h \in UnsafeHandles(nodes) : HandleCopy(h)
  \/ \E u \in UnsafeHandles(nodes) : EncodeBuilt(u)

\* terms built, their handles copied and cast, and the terms encoded
SpecShare == InitBuild /\ [][NextShare]_vars

\* C16: no builder call, handle copy, cast or encode call changes the kind,
\* sort, opcode, literal value, declaration or operand list of an existing
\* node; store(a, i, v) allocates a new node at an address no node had and
\* leaves the nodes of a, i and v as they were.
C16_NodesImmutable ==
  [][/\ \A a \in DOMAIN nodes :
          a \in DOMAIN nodes' /\ nodes'[a] = nodes[a]
     /\ (lastOp' = "store" /\ ~violation') =>
          /\ ret' \notin DOMAIN nodes
          /\ ret' \in DOMAIN nodes'
          /\ nodes'[ret'].kind = ARRAY_STORE_EXPR_KIND
          /\ nodes'[ret'].operands = args'
          /\ \A i \in 1..3 : nodes'[args'[i]] = nodes[args'[i]]
     /\ lastOp' \in {"copy", "encode", "cast"} => nodes' = nodes]_vars

\* store(a, x, x) has been built and the node of a is the constant a still
C16_Witness ==
  /\ lastOp = "store"
  /\ ~violation
  /\ args = <<3, 1, 1>>
  /\ nodes[ret].kind = ARRAY_STORE_EXPR_KIND
  /\ nodes[3] = LeafHeap[3]
  /\ nodes[1] = LeafHeap[1]

\* ------------------------------------------ literal round-trip specification
\* The literal tests: a literal is built and encoded on a backend, the
\* backend's expression of it is compared with the same scalar in the
\* backend's own solver, and the solver is checked.

\* the primitive term types of the model and the C++ types of the scalars
\* literal<T, U> is given for them
LiteralTypes ==
  {<<"Bool", "bool">>, <<"Int", "int">>, <<"Int", "long">>,
   <<"BvS8", "signed char">>, <<"BvS8", "int">>,
   <<"BvU8", "unsigned char">>, <<"BvU8", "int">>}

\* values of a term type: both truth values, the integers up to MaxInt in
\* magnitude, and for a bit-vector type those next to the ends of its range
LiteralValues(T) ==
  CASE T = "Bool" -> {0, 1}
    [] T = "Int" -> (0 - MaxInt)..MaxInt
    [] T = "BvS8" -> (0 - MaxInt)..MaxInt \cup {127 - MaxInt, 127}
                       \cup {0 - 128, MaxInt - 128}
    [] T = "BvU8" -> 0..MaxInt \cup (127..128) \cup {255 - MaxInt, 255}

\* the backend's numeral of sort S for a scalar: a truth value for Bool,
\* the integer for Int, and the bit pattern of the sort's width for a
\* bit-vector
NativeNumeral(S, scalar) ==
  IF SortObj(S).is_bool THEN (IF scalar # 0 THEN 1 ELSE 0)
  ELSE IF SortObj(S).is_bv THEN scalar % (2 ^ SortObj(S).bv_size)
  ELSE scalar

\* the backend's expression after a literal hook call: s.expr()
NativeLiteral(c) == NativeNumeral(c.sort, c.litval)

\* scalar == expr and scalar != expr in the backend's own language: the
\* scalar becomes a numeral of the expression's sort
NativeFormula(rel, S, scalar, expr) ==
  [rel |-> rel, lhs |-> NativeNumeral(S, scalar), rhs |-> expr]

\* the backend's solver on its assertions
NativeCheckResult(fs) ==
  IF \A f \in AllAsserted(fs) :
       IF f.rel = "eq" THEN f.lhs = f.rhs ELSE f.lhs # f.rhs
  THEN sat ELSE unsat

InitLiteral ==
  /\ nodes = << >>
  /\ overrides \in Backends
  /\ InitSolver

\* literal<T, U>(v), or LiteralExpr<T, U> e0(v)
LiteralBuild(T, U, v) ==
  /\ nodes = << >>
  /\ nodes' = <<LiteralExpr(T, U, v)>>
  /\ lastOp' = "literal"
  /\ UNCHANGED clientVars
  /\ arg' = v
  /\ argT' = T
  /\ ret' = "void"
  /\ UNCHANGED <<overrides, frames, open, saved, beforePush, prevFrames,
                 args, encErr, calls, violation>>

\* e0.encode(s)
LiteralEncodeCall ==
  /\ lastOp = "literal"
  /\ lastOp' = "encode"
  /\ UNCHANGED clientVars
  /\ calls' = NodeEncode(nodes[1])
  /\ encErr' = SolverHook(nodes, overrides, calls'[Len(calls')])
  /\ ret' = EncodeReturn(nodes, overrides, 1)
  /\ UNCHANGED <<nodes, overrides, frames, open, saved, beforePush,
                 prevFrames, arg, argT, args, violation>>

\* solver.add(v == expr) and solver.add(v != expr) on the expression of an
\* encoding that returned OK
NativeAdd(rel) ==
  /\ lastOp \in {"encode", "native_add", "native_check"}
  /\ encErr = OK
  /\ AssertCount(frames) < 2
  /\ lastOp' = "native_add"
  /\ UNCHANGED clientVars
  /\ prevFrames' = frames
  /\ frames' = AssertFrames(frames,
                 NativeFormula(rel, nodes[1].sort, arg,
                               NativeLiteral(calls[1])))
  /\ ret' = "void"
  /\ UNCHANGED <<nodes, overrides, open, saved, beforePush, arg, argT, args,
                 encErr, calls, violation>>

\* solver.check()
NativeCheck ==
  /\ lastOp \in {"encode", "native_add"}
  /\ encErr = OK
  /\ lastOp' = "native_check"
  /\ UNCHANGED clientVars
  /\ prevFrames' = frames
  /\ ret' = NativeCheckResult(frames)
  /\ UNCHANGED <<nodes, overrides, frames, open, saved, beforePush, arg,
                 argT, args, encErr, calls, violation>>

NextLiteral ==
  \/ \E p \in LiteralTypes : \E v \in LiteralValues(p[1]) :
       LiteralBuild(p[1], p[2], v)
  \/ LiteralEncodeCall
  \/ \E rel \in {"eq", "ne"} : NativeAdd(rel)
  \/ NativeCheck

\* literals of every primitive type encoded and compared with their scalar
SpecLiteral == InitLiteral /\ [][NextLiteral]_vars

\* the relations asserted so far
AssertedRels == {f.rel : f \in AllAsserted(frames)}

\* C17: encoding literal<T>(v) on a backend that supports the scalar's type
\* returns OK; with encoded == v asserted the check is sat, and with
\* encoded != v asserted the check is unsat.
C17_LiteralRoundTrip ==
  /\ (lastOp = "encode" /\ nodes[1].littype \in overrides) =>
       (ret = OK /\ encErr = OK)
  /\ (lastOp = "encode" /\ nodes[1].littype \notin overrides) => ret # OK
  /\ (lastOp = "native_check" /\ AssertedRels = {"eq"}) => ret = sat
  /\ (lastOp = "native_check" /\ "ne" \in AssertedRels) => ret = unsat

\* the literal -128 of Bv<signed char>, given as an int, was encoded,
\* asserted equal to -128 and checked
C17_Witness ==
  /\ lastOp = "native_check"
  /\ argT = "BvS8"
  /\ arg = 0 - 128
  /\ nodes[1].littype = "int"
  /\ encErr = OK
  /\ AssertedRels = {"eq"}
  /\ ret = sat

\* ------------------------------------------------ distinct specification
\* The distinct test: four free terms t1, t2, t3 and w of one sort are
\* declared, distinct is built over some of t1..t3 in some order, one of its
\* operands is equated to another term, and the terms are asserted and
\* checked.
DistinctSorts == {"Int", "Bool"}
DistinctSymbols == <<"t1", "t2", "t3", "w">>

\* any<T>(symbol) for each of the four symbols
DistinctLeafHeap(T) ==
  [i \in 1..Len(DistinctSymbols) |->
     ConstantExpr(T, Decl(T, DistinctSymbols[i]))]

\* the handle of the fresh term w
FreshTerm == Len(DistinctSymbols)

\* the values a term of sort S takes in the backend's models; the
\* integers are cut at MaxInt
SortValues(S) ==
  IF SortObj(S).is_bool THEN BOOLEAN ELSE (0 - MaxInt)..MaxInt

\* the backend's decision on the terms asserted in fs, whose free symbols
\* are of sort S
DecideOver(heap, fs, S) ==
  IF \E m \in [{DistinctSymbols[i] : i \in 1..Len(DistinctSymbols)}
                 -> SortValues(S)] :
       \A a \in Asserted(fs) : Eval(heap, a, m)
  THEN sat ELSE unsat

InitDistinct ==
  /\ \E T \in DistinctSorts : nodes = DistinctLeafHeap(T)
  /\ overrides = BuiltinLiteralTypes
  /\ InitSolver

\* the operand lists: two or three of t1..t3, no term twice, in any order
DistinctOperands ==
  {ops \in UNION {[1..n -> 1..(FreshTerm - 1)] : n \in 2..(FreshTerm - 1)} :
     \A i, j \in 1..Len(ops) : i # j => ops[i] # ops[j]}

\* a distinct built with the opcode of equality
DistinctAsEql(T, terms) == NaryExpr(EQL, "Bool", terms)

\* distinct(Terms<T>&& terms): new NaryExpr<NEQ, T, Bool>(std::move(terms))
Distinct(T, terms) == NaryExpr(NEQ, "Bool", terms)

\* a step of the test that builds a node: its handle is kept in arg
DistinctStep(op, ops, pre, node) ==
  /\ ~violation
  /\ lastOp' = op
  /\ UNCHANGED clientVars
  /\ ret' = "void"
  /\ prevFrames' = frames
  /\ IF pre
     THEN /\ nodes' = Allocate(nodes, ops, node)
          /\ arg' = Len(nodes) + 1
          /\ UNCHANGED violation
     ELSE /\ nodes' = nodes
          /\ arg' = Null
          /\ violation' = TRUE
  /\ UNCHANGED <<overrides, frames, open, saved, beforePush, argT, encErr,
                 calls>>

\* Bool d(distinct(std::move(operand_terms)))
DistinctBuild(ops) ==
  /\ Len(nodes) = FreshTerm
  /\ args' = ops
  /\ DistinctStep("distinct", ops, UnsafeNaryExprPre(ops),
                  Distinct(nodes[1].dyn, ops))

\* l == r for an operand l of the distinct and another term r
EqualBuild(l, r) ==
  /\ Len(nodes) = FreshTerm + 1
  /\ UNCHANGED args
  /\ DistinctStep("equal", <<l, r>>, UnsafeBinaryExprPre(l, r),
                  BuiltinBinaryRel(EQL, nodes[1].dyn, l, r))

\* s.add(t) for a built Bool term t
DistinctAdd(t) ==
  /\ ~violation
  /\ t \notin AllAsserted(frames)
  /\ lastOp' = "add"
  /\ UNCHANGED clientVars
  /\ arg' = t
  /\ prevFrames' = frames
  /\ frames' = AddFrames(nodes, overrides, frames, t)
  /\ ret' = AddReturn(encode(nodes, overrides, t))
  /\ UNCHANGED <<nodes, overrides, open, saved, beforePush, args, argT,
                 encErr, calls, violation>>

\* s.check()
DistinctCheck ==
  /\ ~violation
  /\ lastOp = "add"
  /\ lastOp' = "check"
  /\ UNCHANGED clientVars
  /\ prevFrames' = frames
  /\ ret' = DecideOver(nodes, frames, nodes[1].sort)
  /\ UNCHANGED <<nodes, overrides, frames, open, saved, beforePush, arg,
                 args, argT, encErr, calls, violation>>

NextDistinct ==
  \/ \E ops \in DistinctOperands : DistinctBuild(ops)
  \/ \E l \in {args[i] : i \in 1..Len(args)}, r \in 1..FreshTerm :
       l # r /\ EqualBuild(l, r)
  \/ \E t \in (FreshTerm + 1)..Len(nodes) : DistinctAdd(t)
  \/ DistinctCheck

\* distinct terms built and checked with and without an equality
SpecDistinct == InitDistinct /\ [][NextDistinct]_vars

\* the handles of the distinct node and of the equality
DistinctTerm == FreshTerm + 1
EqualTerm == FreshTerm + 2

\* the node distinct returns: one N-ary NEQ node of sort Bool over the
\* operands in their given order
DistinctNodeShape ==
  Len(nodes) >= DistinctTerm =>
    /\ nodes[DistinctTerm].kind = NARY_EXPR_KIND
    /\ nodes[DistinctTerm].opcode = NEQ
    /\ SortEq(nodes[DistinctTerm].sort, "Bool")
    /\ nodes[DistinctTerm].dyn = "Bool"
    /\ nodes[DistinctTerm].operands = args
    /\ Len(args) >= 2

\* what the checks return; when sized, the two sat results are those of a
\* sort that has at least as many values as the distinct has operands
DistinctChecks(sized) ==
  (lastOp = "check" /\ DistinctTerm \in AllAsserted(frames)) =>
    LET n == Len(args)
        enough == sized => Cardinality(SortValues(nodes[1].sort)) >= n
        alone == AllAsserted(frames) = {DistinctTerm}
        other == nodes[EqualTerm].operands[2]
    IN /\ (alone /\ enough) => ret = sat
       /\ (~alone /\ other \in {args[i] : i \in 1..n}) => ret = unsat
       /\ (~alone /\ other = FreshTerm /\ enough) => ret = sat

\* C18 as claimed: for n >= 2 free terms of equal sort, distinct(t1..tn) is
\* one N-ary NEQ node of sort Bool over the operands in their order;
\* asserted alone it is sat, with ti == tj it is unsat, and with ti == w for
\* a fresh w it is sat.
C18_DistinctAnySort == DistinctNodeShape /\ DistinctChecks(FALSE)

\* C18, amended: the same, the two sat results for terms of a sort that has
\* at least n values.
C18_Distinct == DistinctNodeShape /\ DistinctChecks(TRUE)

\* distinct(t3, t1, t2) over Int asserted with t1 == w and checked
C18_Witness ==
  /\ lastOp = "check"
  /\ nodes[1].sort = "Int"
  /\ args = <<3, 1, 2>>
  /\ AllAsserted(frames) = {DistinctTerm, EqualTerm}
  /\ nodes[EqualTerm].operands = <<1, FreshTerm>>
  /\ ret = sat

\* --------------------------------------------------- array specification
\* The array store test: over a free array a, an array k whose elements are
\* all v, free indices i and j, a free value v and the literal 1, a store,
\* a select of it and a comparison of the select are built, asserted and
\* checked.
\*   1  any<Array<Int, Int>>("a")   2  any<Int>("i")   3  any<Int>("j")
\*   4  any<Int>("v")               5  literal<Int>(1)
\*   6  new ConstArrayExpr<Int, Int>(v)
ArrayLeafHeap ==
  << ConstantExpr("ArrIntInt", Decl("ArrIntInt", "a")),
     ConstantExpr("Int", Decl("Int", "i")),
     ConstantExpr("Int", Decl("Int", "j")),
     ConstantExpr("Int", Decl("Int", "v")),
     LiteralExpr("Int", "int", 1),
     ConstArrayExpr("ArrIntInt", 4) >>

ArrayTerms == {1, 6}
IndexTerms == {2, 3}
ValueTerms == {4, 5}
StoreTerm == Len(ArrayLeafHeap) + 1
SelectTerm == Len(ArrayLeafHeap) + 2
CompareTerm == Len(ArrayLeafHeap) + 3

\* the backend's models: an array a over the indices and free i, j and v,
\* the values cut at MaxInt
ArrayModels ==
  [a : [ArrayIndices -> ArrayIndices], i : ArrayIndices, j : ArrayIndices,
   v : ArrayIndices]

\* the backend's decision on the terms asserted in fs
DecideArray(heap, fs) ==
  IF \E m \in ArrayModels : \A t \in Asserted(fs) : Eval(heap, t, m)
  THEN sat ELSE unsat

InitArray ==
  /\ nodes = ArrayLeafHeap
  /\ overrides = BuiltinLiteralTypes
  /\ InitSolver

\* a store that takes the value for the index and the index for the value
storeSwapped(array, index, value) ==
  ArrayStoreExpr("ArrIntInt", array, value, index)

\* store(array, index, value):
\* new ArrayStoreExpr<Domain, Range>(array, index, value)
store(array, index, value) ==
  ArrayStoreExpr("ArrIntInt", array, index, value)

\* select(array, index): new ArraySelectExpr<Domain, Range>(array, index)
select(array, index) == ArraySelectExpr("Int", array, index)

\* store(array, index, value) on the declared terms
ArrayStore(array, index, value) ==
  /\ Len(nodes) = StoreTerm - 1
  /\ args' = <<array, index, value>>
  /\ DistinctStep("store", <<array, index, value>>,
                  UnsafeArrayStoreExprPre(array, index, value),
                  store(array, index, value))

\* select(store(...), index)
ArraySelect(index) ==
  /\ Len(nodes) = SelectTerm - 1
  /\ args' = Append(args, index)
  /\ DistinctStep("select", <<StoreTerm, index>>,
                  UnsafeArraySelectExprPre(StoreTerm, index),
                  select(StoreTerm, index))

\* select(...) == value and select(...) != value
ArrayCompare(opcode, value) ==
  /\ Len(nodes) = CompareTerm - 1
  /\ args' = Append(args, value)
  /\ DistinctStep("compare", <<SelectTerm, value>>,
                  UnsafeBinaryExprPre(SelectTerm, value),
                  BuiltinBinaryRel(opcode, "Int", SelectTerm, value))

\* s.add(comparison)
ArrayAdd ==
  /\ Len(nodes) = CompareTerm
  /\ DistinctAdd(CompareTerm)

\* s.check()
ArrayCheck ==
  /\ ~violation
  /\ lastOp = "add"
  /\ lastOp' = "check"
  /\ UNCHANGED clientVars
  /\ prevFrames' = frames
  /\ ret' = DecideArray(nodes, frames)
  /\ UNCHANGED <<nodes, overrides, frames, open, saved, beforePush, arg,
                 args, argT, encErr, calls, violation>>

NextArray ==
  \/ \E array \in ArrayTerms, index \in IndexTerms, value \in ValueTerms :
       ArrayStore(array, index, value)
  \/ \E index \in IndexTerms : ArraySelect(index)
  \/ \E opcode \in {EQL, NEQ}, value \in ValueTerms :
       ArrayCompare(opcode, value)
  \/ ArrayAdd
  \/ ArrayCheck

\* stores, selects and comparisons built, asserted and checked
SpecArray == InitArray /\ [][NextArray]_vars

\* What the check of select(store(a, i, v), j) REL w returns, the terms
\* a, i, v, j and w those given to store, select and the comparison, kept
\* in args in this order; a is any of the arrays when anyArray and the
\* free array otherwise.
ArrayLaw(anyArray) ==
  (lastOp = "check" /\ Asserted(frames) = {CompareTerm}) =>
    LET sameIndex == args[4] = args[2]
        sameValue == args[5] = args[3]
        free == anyArray \/ nodes[args[1]].kind = CONSTANT_EXPR_KIND
        opcode == nodes[CompareTerm].opcode
    IN /\ (sameValue /\ sameIndex /\ opcode = NEQ) => ret = unsat
       /\ (sameValue /\ sameIndex /\ opcode = EQL) => ret = sat
       /\ (sameValue /\ ~sameIndex /\ free) => ret = sat

\* C19 as claimed: for any array a, index i and value v,
\* select(store(a, i, v), i) != v is unsat, and for another free index j
\* both select(store(a, i, v), j) == v and select(store(a, i, v), j) != v
\* are sat.
C19_ArrayLawAnyArray == ArrayLaw(TRUE)

\* C19, amended: select(store(a, i, v), i) != v is unsat for any array a;
\* the two formulas with another free index j are sat for a free array a.
C19_ArrayLaw == ArrayLaw(FALSE)

\* select(store(a, i, v), j) != v over the free array a was checked
C19_Witness ==
  /\ lastOp = "check"
  /\ args = <<1, 2, 4, 3, 4>>
  /\ nodes[StoreTerm].operands = <<1, 2, 4>>
  /\ nodes[SelectTerm].operands = <<StoreTerm, 3>>
  /\ nodes[CompareTerm].operands = <<SelectTerm, 4>>
  /\ nodes[CompareTerm].opcode = NEQ
  /\ Asserted(frames) = {CompareTerm}
  /\ ret = sat

\* ------------------------------------------------ comparison specification
\* The bit-vector comparison tests: over free terms of Bv<signed char> and
\* of Bv<unsigned char>, a relation of two terms or of a term and a scalar
\* is built and encoded, and the backend's expression is looked at.
\*   1  any<Bv<signed char>>("x")     2  any<Bv<signed char>>("y")
\*   3  any<Bv<unsigned char>>("u")   4  any<Bv<unsigned char>>("w")
CompareLeafHeap ==
  << ConstantExpr("BvS8", Decl("BvS8", "x")),
     ConstantExpr("BvS8", Decl("BvS8", "y")),
     ConstantExpr("BvU8", Decl("BvU8", "u")),
     ConstantExpr("BvU8", Decl("BvU8", "w")) >>

BvTypes == {"BvS8", "BvU8"}

\* std::is_signed<T>::value of the T of Bv<T>
IsSigned(T) == T = "BvS8"

\* the backend's operator for a hook call of encode_binary: the signed
\* comparison when the sort of the left operand is signed, the unsigned one
\* otherwise, and one operator each for == and !=
NativeOperator(heap, c) ==
  LET signed == SortObj(Pointee(heap, c.args[1]).sort).is_signed
  IN CASE c.opcode = LSS -> IF signed THEN "bvslt" ELSE "bvult"
       [] c.opcode = LEQ -> IF signed THEN "bvsle" ELSE "bvule"
       [] c.opcode = GTR -> IF signed THEN "bvsgt" ELSE "bvugt"
       [] c.opcode = GEQ -> IF signed THEN "bvsge" ELSE "bvuge"
       [] c.opcode = EQL -> "="
       [] c.opcode = NEQ -> "distinct"
       [] OTHER -> "none"

InitCompare ==
  /\ nodes = CompareLeafHeap
  /\ overrides = BuiltinLiteralTypes
  /\ InitSolver

\* one relation built: the nodes news are allocated in their order and the
\* handle of the last one is kept in arg
Compared(op, T, pre, news) ==
  /\ lastOp' = op
  /\ UNCHANGED clientVars
  /\ argT' = T
  /\ ret' = "void"
  /\ IF pre
     THEN /\ nodes' = nodes \o news
          /\ arg' = Len(nodes) + Len(news)
          /\ args' = news[Len(news)].operands
          /\ UNCHANGED violation
     ELSE /\ nodes' = nodes
          /\ arg' = Null
          /\ args' = << >>
          /\ violation' = TRUE
  /\ UNCHANGED <<overrides, solverVars, encErr, calls>>

\* l rel r for two terms of Bv<T>
CompareTerms(opcode, T, l, r) ==
  /\ nodes = CompareLeafHeap
  /\ Compared("compare", T, UnsafeBinaryExprPre(l, r),
              <<BuiltinBinaryRel(opcode, T, l, r)>>)

\* a rel scalar and scalar rel a: the scalar becomes literal<T, U>(scalar)
CompareScalar(opcode, T, a, side) ==
  /\ nodes = CompareLeafHeap
  /\ LET p == ScalarPair(side, a, Len(nodes) + 1)
     IN Compared("compare_scalar", T, UnsafeBinaryExprPre(p[1], p[2]),
                 <<LiteralExpr(T, "char", 0),
                   BuiltinBinaryRel(opcode, T, p[1], p[2])>>)

\* the relation is encoded and the backend's expression rendered
CompareEncode ==
  /\ ~violation
  /\ lastOp \in {"compare", "compare_scalar"}
  /\ lastOp' = "encode"
  /\ UNCHANGED clientVars
  /\ calls' = NodeEncode(nodes[arg])
  /\ encErr' = encode(nodes, overrides, arg)
  /\ ret' = IF encErr' = OK THEN NativeOperator(nodes, calls'[Len(calls')])
            ELSE "none"
  /\ UNCHANGED <<nodes, overrides, solverVars, arg, args, argT, violation>>

NextCompare ==
  \/ \E opcode \in RelOpcodes, T \in BvTypes :
       \E l, r \in TermsOfType(nodes, T) : CompareTerms(opcode, T, l, r)
  \/ \E opcode \in RelOpcodes, T \in BvTypes, side \in Sides :
       \E a \in TermsOfType(nodes, T) : CompareScalar(opcode, T, a, side)
  \/ CompareEncode

\* relations over bit-vector terms built and encoded
SpecCompare == InitCompare /\ [][NextCompare]_vars

SignedOperators == {"bvslt", "bvsle", "bvsgt", "bvsge"}
UnsignedOperators == {"bvult", "bvule", "bvugt", "bvuge"}

\* C20: for <, <=, > and >= on two bit-vector terms, or on a term and a
\* scalar promoted to the term's sort, the backend is given the signed
\* comparison if and only if the terms' bit-vector type is signed, and the
\* unsigned one otherwise; == and != reach the backend as the same operator
\* for both.
C20_SignedDispatch ==
  lastOp = "encode" =>
    LET n == nodes[arg]
    IN /\ encErr = OK
       /\ calls[Len(calls)].opcode = n.opcode
       /\ calls[Len(calls)].args = args
       /\ \A i \in 1..2 : nodes[args[i]].sort = argT
       /\ n.opcode \in {LSS, LEQ, GTR, GEQ} =>
            /\ ret \in SignedOperators <=> IsSigned(argT)
            /\ ret \in UnsignedOperators <=> ~IsSigned(argT)
       /\ n.opcode = EQL => ret = "="
       /\ n.opcode = NEQ => ret = "distinct"

\* '\0' < x over Bv<signed char> reached the backend as bvslt
C20_Witness ==
  /\ lastOp = "encode"
  /\ argT = "BvS8"
  /\ nodes[arg].opcode = LSS
  /\ nodes[args[1]].kind = LITERAL_EXPR_KIND
  /\ args[2] = 1
  /\ ret = "bvslt"

\* ------------------------------------------- literal width specification
\* the scalars of a C++ type U given to literal<T, U>: values around 0 and
\* around the ends of the 8-bit ranges, those a wider U has beyond them
\* included
ScalarValues(U) ==
  CASE U = "bool" -> {0, 1}
    [] U = "signed char" -> {0 - 128, 0 - 1, 0, 1, 127}
    [] U = "unsigned char" -> {0, 1, 127, 128, 255}
    [] OTHER -> {0 - 256 - MaxInt, 0 - 129, 0 - 128, 0 - 1, 0, 1, 127, 128,
                 255, 256, 256 + MaxInt}

NextWidth ==
  \/ \E p \in LiteralTypes : \E v \in ScalarValues(p[2]) :
       LiteralBuild(p[1], p[2], v)
  \/ LiteralEncodeCall

\* literals of every scalar type built for every term type and encoded
SpecWidth == InitLiteral /\ [][NextWidth]_vars

\* the sort of literal<Bv<W>>(v) is the bit-vector sort of W bits, whatever
\* the type of v
LiteralSortOfType ==
  (lastOp \in {"literal", "encode"} /\ argT \in {"BvS8", "BvU8"}) =>
    /\ nodes[1].kind = LITERAL_EXPR_KIND
    /\ nodes[1].sort = argT
    /\ nodes[1].dyn = argT
    /\ SortObj(nodes[1].sort).is_bv
    /\ SortObj(nodes[1].sort).bv_size = 8
    /\ SortObj(nodes[1].sort).is_signed = (argT = "BvS8")

\* C21 as claimed: literal<Bv<W>>(v) is a literal node of the bit-vector
\* sort of width W, whatever the width of the type of v, and the value the
\* node carries to the backend is v mod 2^W.
C21_LiteralTruncated ==
  /\ LiteralSortOfType
  /\ (lastOp = "encode" /\ argT \in {"BvS8", "BvU8"}) =>
       calls[1].litval = arg % (2 ^ SortObj(argT).bv_size)

\* C21, amended: the sort is as claimed, and the node carries v itself, as a
\* scalar of its own type U, to the literal hook of U together with the
\* sort of width W.
C21_LiteralWidth ==
  /\ LiteralSortOfType
  /\ (lastOp = "encode" /\ argT \in {"BvS8", "BvU8"}) =>
       /\ Len(calls) = 1
       /\ calls[1].hook = "encode_literal"
       /\ calls[1].sort = argT
       /\ calls[1].littype = nodes[1].littype
       /\ calls[1].litval = arg
       /\ nodes[1].litval = arg

\* literal<Bv<unsigned char>>(256) given as an int was encoded
C21_Witness ==
  /\ lastOp = "encode"
  /\ argT = "BvU8"
  /\ arg = 256
  /\ nodes[1].littype = "int"
  /\ calls[1].litval = 256
  /\ SortObj(calls[1].sort).bv_size = 8

\* ------------------------------------------------ term graph specification
\* client code builds terms over terms it built before
CanGrow ==
  /\ ~violation
  /\ Len(nodes) < Len(LeafHeap) + MaxDepth

\* operator-(Int): new UnaryExpr
GrowUnary(a) ==
  /\ CanGrow
  /\ New("unary", "Int", <<a>>, UnsafeUnaryExprPre(a),
      UnaryExpr(SUB, "Int", a))

\* operator+(Int, Int): new BinaryExpr
GrowBinary(l, r) ==
  /\ CanGrow
  /\ New("binary", "Int", <<l, r>>, UnsafeBinaryExprPre(l, r),
      BinaryExpr(ADD, "Int", l, r))

\* distinct(Terms<Int>&&): new NaryExpr
GrowNary(ops) ==
  /\ CanGrow
  /\ New("distinct", "Bool", ops, UnsafeNaryExprPre(ops),
      NaryExpr(NEQ, "Bool", ops))

\* the handles of the Int terms built from the leaf x
IntTerms(heap) ==
  {a \in DOMAIN heap : heap[a].dyn = "Int" /\ (a = 1 \/ a > Len(LeafHeap))}

NextDag ==
  \/ \E a \in IntTerms(nodes) \cup {Null} : GrowUnary(a)
  \/ \E l, r \in IntTerms(nodes) \cup {Null} : GrowBinary(l, r)
  \/ \E l, r \in IntTerms(nodes) : GrowNary(<<l, r>>)
  \/ \E h \in UnsafeHandles(nodes) : HandleCopy(h)

\* terms built over terms built before, and their handles copied
SpecDag == InitBuild /\ [][NextDag]_vars

\* the nodes the operand handles of the node at a point to
Children(heap, a) ==
  {heap[a].operands[k] : k \in DOMAIN heap[a].operands} \ {Null}

\* the nodes reached from the node at a along at most n operand edges,
\* one edge at least
RECURSIVE Below(_, _, _)
Below(heap, a, n) ==
  IF n = 0
  THEN {}
  ELSE Children(heap, a) \cup
       UNION {Below(heap, c, n - 1) : c \in Children(heap, a)}

\* C22: in every reachable state the operand relation is acyclic: no node
\* reaches itself along operand edges, and every operand of a node is a node
\* allocated before it; one node may be an operand of several nodes.
C22_Acyclic ==
  \A a \in DOMAIN nodes :
    /\ a \notin Below(nodes, a, Len(nodes))
    /\ \A c \in Children(nodes, a) : c \in DOMAIN nodes /\ c < a

\* x + x was built, then (x + x) + x: the node of x is shared by two parents
\* and is twice an operand of one
C22_Witness ==
  /\ Len(nodes) = Len(LeafHeap) + 2
  /\ nodes[5].operands = <<1, 1>>
  /\ nodes[6].operands = <<5, 1>>
  /\ Below(nodes, 6, Len(nodes)) = {1, 5}

\* --------------------------------------------- node lifetime specification
\* The handle variables of client code. A handle owns a control block of
\* std::shared_ptr, or none: 0 stands for the null handle. A control block
\* keeps the pointer it deletes and its use count; the node at the pointer
\* is deleted when the use count falls to 0, and the destructor of the node
\* destroys the operand handles the node keeps.
HandleVars == {"h", "g"}

Block(ptr, use) == [ptr |-> ptr, use |-> use]

\* m_ptr.get() of the handle that owns control block b
PtrOf(bs, b) == IF b = 0 THEN Null ELSE bs[b].ptr

\* std::shared_ptr(const shared_ptr&): one more owner of control block b
Acquire(bs, b) == IF b = 0 THEN bs ELSE [bs EXCEPT ![b].use = @ + 1]

\* ~shared_ptr() of the owners of the control blocks in todo, in this
\* order: a use count that falls to 0 deletes the node, which destroys the
\* operand handles of the node in turn. Deleting a node a second time is
\* undefined: the operand handles are destroyed again or not, by again.
RECURSIVE ReleaseAll(_, _, _, _)
ReleaseAll(st, mem, todo, again) ==
  IF todo = << >>
  THEN st
  ELSE LET b == Head(todo)
           rest == Tail(todo)
       IN  IF b = 0 \/ st.blocks[b].use = 0
           THEN ReleaseAll(st, mem, rest, again)
           ELSE LET use == st.blocks[b].use - 1
                    ptr == st.blocks[b].ptr
                    bs == [st.blocks EXCEPT ![b].use = use]
                IN  IF use > 0
                    THEN ReleaseAll([st EXCEPT !.blocks = bs], mem, rest,
                                    again)
                    ELSE ReleaseAll(
                           [blocks |-> bs,
                            deletes |-> [st.deletes EXCEPT ![ptr] = @ + 1]],
                           mem,
                           IF st.deletes[ptr] = 0 \/ again
                           THEN mem[ptr] \o rest
                           ELSE rest,
                           again)

\* some node was deleted more than once
DoubleDelete(ds) == \E a \in DOMAIN ds : ds[a] > 1

InitLife ==
  /\ nodes = << >>
  /\ overrides = {}
  /\ InitCore
  /\ handles = [v \in HandleVars |-> 0]
  /\ blocks = << >>
  /\ members = << >>
  /\ deletes = << >>
  /\ solvers = << >>
  /\ m_flips = << >>
  /\ m_flip_iter = 1
  /\ m_guard = 0

\* a statement of client code on its handle variables: the variable v
\* becomes an owner of control block b of the control blocks bs, and what
\* it owned before is released
LifeStep(op, v, heap, mem, bs, ds, b) ==
  /\ lastOp' = op
  /\ nodes' = heap
  /\ members' = mem
  /\ \E again \in BOOLEAN :
       LET st == ReleaseAll([blocks |-> bs, deletes |-> ds], mem,
                            <<handles[v]>>, again)
       IN  /\ blocks' = st.blocks
           /\ deletes' = st.deletes
           /\ violation' = DoubleDelete(st.deletes)
  /\ handles' = [handles EXCEPT ![v] = b]
  /\ UNCHANGED <<overrides, solverVars, arg, args, argT, ret, encErr, calls,
                 solvers, tracerVars>>

\* client code runs while no undefined behaviour has happened
CanLive ==
  /\ ~violation
  /\ Len(nodes) <= MaxDepth
  /\ Len(blocks) <= MaxDepth + 1

\* v = literal<Int>(1): UnsafeTerm(const UnsafeExpr*) on the new node makes
\* a control block of its own
LifeLiteral(v) ==
  /\ CanLive
  /\ LifeStep("literal", v,
       Allocate(nodes, << >>, LiteralExpr("Int", "int", 1)),
       Append(members, << >>),
       Append(blocks, Block(Len(nodes) + 1, 1)),
       Append(deletes, 0),
       Len(blocks) + 1)

\* v = l + r: the new node keeps copies of the handles l and r
LifeBinary(v, l, r) ==
  /\ CanLive
  /\ handles[l] # 0
  /\ handles[r] # 0
  /\ LifeStep("binary", v,
       Allocate(nodes, <<PtrOf(blocks, handles[l]), PtrOf(blocks, handles[r])>>,
         BinaryExpr(ADD, "Int", PtrOf(blocks, handles[l]),
                    PtrOf(blocks, handles[r]))),
       Append(members, <<handles[l], handles[r]>>),
       Append(Acquire(Acquire(blocks, handles[l]), handles[r]),
              Block(Len(nodes) + 1, 1)),
       Append(deletes, 0),
       Len(blocks) + 1)

\* UnsafeTerm(const UnsafeTerm&) and operator=(const UnsafeTerm&), and the
\* same members of Term<T>: v = w
LifeCopy(v, w) ==
  /\ CanLive
  /\ LifeStep("copy", v, nodes, members, Acquire(blocks, handles[w]),
       deletes, handles[w])

\* ~UnsafeTerm() and ~Term(): v goes out of scope; the name then stands for a
\* default-constructed handle
LifeDestroy(v) ==
  /\ CanLive
  /\ handles[v] # 0
  /\ LifeStep("destroy", v, nodes, members, blocks, deletes, 0)

\* UnsafeTerm(const UnsafeExpr* ptr) with ptr = &w.ref(): v = UnsafeTerm(ptr)
\* makes a control block of its own for the node of w
LifeAdopt(v, w) ==
  /\ CanLive
  /\ handles[w] # 0
  /\ LifeStep("adopt", v, nodes, members,
       Append(blocks, Block(PtrOf(blocks, handles[w]), 1)),
       deletes, Len(blocks) + 1)

NextLife ==
  \/ \E v \in HandleVars : LifeLiteral(v)
  \/ \E v, l, r \in HandleVars : LifeBinary(v, l, r)
  \/ \E v, w \in HandleVars : LifeCopy(v, w)
  \/ \E v \in HandleVars : LifeDestroy(v)
  \/ \E v, w \in HandleVars : LifeAdopt(v, w)

\* handles constructed, copied, assigned and destroyed around builder calls
SpecLife == InitLife /\ [][NextLife]_vars

\* the node at a has not been deleted
Alive(a) == deletes[a] = 0

\* a handle variable or a live parent node references the node at a
Referenced(a) ==
  \/ \E v \in HandleVars : PtrOf(blocks, handles[v]) = a
  \/ \E p \in DOMAIN nodes :
       /\ Alive(p)
       /\ \E k \in DOMAIN members[p] : PtrOf(blocks, members[p][k]) = a

\* C23: a node is alive exactly as long as a handle or a live parent node
\* references it, it is destroyed once, when the last such reference goes
\* away, and no live handle or live node references a destroyed node.
C23_RefCountLifetime ==
  \A a \in DOMAIN nodes :
    /\ deletes[a] <= 1
    /\ Alive(a) <=> Referenced(a)

\* ---------------------------------------- sort classification specification
\* the bit-vector sizes and the arrays of nested sorts given to the public
\* constructors of Sort
SortSizes == {0, 8, 8 * MaxInt}

NestedSorts == {<<"Int">>, <<"Int", "Int">>, <<"Bool", "Int", "BvU8">>}

\* the static types whose Sort internal::sort<T>() allocates
StaticTypes == Types \cup FuncTypes \cup {"Real"}

\* a Sort object has been constructed and is looked at
Constructed(op, given, S) ==
  /\ ~violation
  /\ lastOp' = op
  /\ arg' = Null
  /\ args' = given
  /\ argT' = "none"
  /\ encErr' = "none"
  /\ calls' = << >>
  /\ ret' = S
  /\ UNCHANGED <<nodes, overrides, solverVars, violation, clientVars>>

\* Sort(is_bool, is_int, is_real, is_bv, is_signed, bv_size)
SortPrimitive(is_bool, is_int, is_real, is_bv, is_signed, bv_size) ==
  /\ TRUE
  /\ Constructed("primitive",
       <<is_bool, is_int, is_real, is_bv, is_signed>>,
       PrimitiveSort(is_bool, is_int, is_real, is_bv, is_signed, bv_size))

\* Sort(is_func, is_array, is_tuple, sorts)
SortComposite(is_func, is_array, is_tuple, nested) ==
  /\ TRUE
  /\ Constructed("composite", <<is_func, is_array, is_tuple>>,
       CompositeSort(is_func, is_array, is_tuple, "user", nested))

\* internal::sort<T>()
SortStatic(T) ==
  /\ TRUE
  /\ Constructed("static", <<T>>, SortObj(T))

NextClassify ==
  \/ \E is_bool, is_int, is_real, is_bv, is_signed \in BOOLEAN :
       \E bv_size \in SortSizes :
         SortPrimitive(is_bool, is_int, is_real, is_bv, is_signed, bv_size)
  \/ \E is_func, is_array, is_tuple \in BOOLEAN :
       \E nested \in NestedSorts :
         SortComposite(is_func, is_array, is_tuple, nested)
  \/ \E T \in StaticTypes : SortStatic(T)

\* Sort objects constructed with every combination of flags, and the Sort of
\* every static type
SpecClassify == Init /\ [][NextClassify]_vars

\* the classifications of a Sort that are set
Classifications(S) ==
  {c \in {"bool", "int", "real", "bv", "array", "func", "tuple"} :
     CASE c = "bool" -> S.is_bool
       [] c = "int" -> S.is_int
       [] c = "real" -> S.is_real
       [] c = "bv" -> S.is_bv
       [] c = "array" -> S.is_array
       [] c = "func" -> S.is_func
       [] c = "tuple" -> S.is_tuple}

\* what each constructor fixes: the primitive one no nested sorts and none
\* of array, func, tuple; the composite one none of bool, int, real, bv and
\* a bit-vector size of 0
ConstructorShape ==
  /\ lastOp = "primitive" =>
       /\ ret.sorts = << >>
       /\ Classifications(ret) \cap {"array", "func", "tuple"} = {}
       /\ <<ret.is_bool, ret.is_int, ret.is_real, ret.is_bv, ret.is_signed>>
            = args
  /\ lastOp = "composite" =>
       /\ Classifications(ret) \cap {"bool", "int", "real", "bv"} = {}
       /\ ret.bv_size = 0
       /\ ~ret.is_signed
       /\ <<ret.is_func, ret.is_array, ret.is_tuple>> = args

\* C24 as claimed: the Sort of every static type and every Sort constructed
\* through the primitive or the composite constructor has exactly one of the
\* classifications bool, int, real, bv, array, func, tuple set, and each
\* constructor fixes the flags of the other kind.
C24_ExactlyOneAnySort ==
  /\ lastOp \in {"static", "primitive", "composite"} =>
       Cardinality(Classifications(ret)) = 1
  /\ ConstructorShape

\* C24, amended: the Sort of every static type has exactly one
\* classification set, the one of its type; a Sort constructed through the
\* primitive or the composite constructor has the classifications it was
\* given, and each constructor fixes the flags of the other kind.
C24_Classification ==
  /\ lastOp = "static" =>
       /\ Cardinality(Classifications(ret)) = 1
       /\ Classifications(ret) =
            {CASE args[1] = "Bool" -> "bool"
               [] args[1] = "Int" -> "int"
               [] args[1] = "Real" -> "real"
               [] args[1] \in {"BvS8", "BvU8"} -> "bv"
               [] args[1] = "ArrIntInt" -> "array"
               [] args[1] \in FuncTypes -> "func"}
       /\ (ret.sorts = << >>) <=> (args[1] \in PrimTypes \cup {"Real"})
       /\ (ret.bv_size # 0) <=> ret.is_bv
  /\ ConstructorShape

\* the Sort of Func<Bool, Int, Bv<unsigned char>> was looked at
C24_Witness ==
  /\ lastOp = "static"
  /\ args = <<"FuncBoolIntBvU8">>
  /\ Classifications(ret) = {"func"}
  /\ Len(ret.sorts) = 3

\* ------------------------------------------ concurrent readers specification
\* Two Solver objects of backends of their own encode one term of the heap,
\* each in a thread of its own. A step of a thread is one hook call: the
\* node's __encode calls the hook of the solver, and the backend's hook
\* encodes the operands it was given from left to right until one fails.
SolverIds == {1, 2}

\* the terms both solvers encode: 2 < x, a unary node with a binary opcode,
\* distinct(x, 0, 2) and select(store(a, 0, 2), 0)
SharedRoots == {4, 9, 11, 14}

\* UnsafeExpr::encode(Solver&) const: the heap after the node at a was
\* encoded, with a cache of the encoding kept in the node
AfterEncodeCached(heap, a) == [heap EXCEPT ![a].operands = << >>]

\* UnsafeExpr::encode(Solver&) const: the heap after the node at a was
\* encoded
AfterEncode(heap, a) == heap

\* a hook call in progress: the call and the operand to encode next
Frame(c, i) == [call |-> c, i |-> i]

\* what the hook answers for call c itself, its operands encoded
HookResult(ov, c) ==
  IF c.hook = "encode_literal"
  THEN encode_literal(ov, c.sort, c.littype, c.litval)
  ELSE OpcodeResult(c)

\* a hook call returned r: the callers' hooks return r too if it is an
\* error, else the caller goes on to its next operand or returns itself
RECURSIVE Unwind(_, _, _)
Unwind(ov, stack, r) ==
  IF stack = << >>
  THEN [stack |-> << >>, err |-> r]
  ELSE LET top == stack[Len(stack)]
           rest == SubSeq(stack, 1, Len(stack) - 1)
       IN  IF r # OK
           THEN Unwind(ov, rest, r)
           ELSE IF top.i < Len(top.call.args)
           THEN [stack |-> Append(rest, Frame(top.call, top.i + 1)),
                 err |-> "none"]
           ELSE Unwind(ov, rest, HookResult(ov, top.call))

\* the node the thread of a solver encodes next
NextNode(root, sv) ==
  IF sv.stack = << >>
  THEN root
  ELSE LET top == sv.stack[Len(sv.stack)] IN top.call.args[top.i]

\* the thread of a solver after the hook call of the node at a
AfterCall(heap, sv, a) ==
  LET c == NodeEncode(heap[a])[1]
      un == IF c.args = << >>
            THEN Unwind(sv.ov, sv.stack, HookResult(sv.ov, c))
            ELSE [stack |-> Append(sv.stack, Frame(c, 1)), err |-> "none"]
  IN  [ov |-> sv.ov, stack |-> un.stack, err |-> un.err,
       log |-> Append(sv.log, c)]

InitReaders ==
  /\ nodes = BaseHeap
  /\ overrides = {}
  /\ frames = <<{}>>
  /\ open = 0
  /\ saved = << >>
  /\ beforePush = "none"
  /\ prevFrames = <<{}>>
  /\ lastOp = "init"
  /\ arg \in SharedRoots
  /\ args = << >>
  /\ argT = "none"
  /\ ret = "void"
  /\ encErr = "none"
  /\ calls = << >>
  /\ violation = FALSE
  /\ handles = << >>
  /\ blocks = << >>
  /\ members = << >>
  /\ deletes = << >>
  /\ solvers \in
       [SolverIds ->
          [ov : Backends, stack : {<< >>}, err : {"none"}, log : {<< >>}]]
  /\ m_flips = << >>
  /\ m_flip_iter = 1
  /\ m_guard = 0

\* the thread of solver s runs up to its next hook call and into it
HookStep(s) ==
  /\ solvers[s].err = "none"
  /\ lastOp' = "hook"
  /\ solvers' = [solvers EXCEPT
                   ![s] = AfterCall(nodes, @, NextNode(arg, @))]
  /\ nodes' = AfterEncode(nodes, NextNode(arg, solvers[s]))
  /\ UNCHANGED <<overrides, solverVars, arg, args, argT, ret, encErr, calls,
                 violation, lifeVars, tracerVars>>

NextReaders == \E s \in SolverIds : HookStep(s)

\* the hook calls of two solvers on one term, in every interleaving
SpecReaders == InitReaders /\ [][NextReaders]_vars

\* the hook calls a solver alone makes to encode the node at a, in order
RECURSIVE HookCalls(_, _, _), OperandCalls(_, _, _, _)
HookCalls(heap, ov, a) ==
  <<NodeEncode(heap[a])[1]>> \o OperandCalls(heap, ov, heap[a].operands, 1)

OperandCalls(heap, ov, ops, i) ==
  IF i > Len(ops)
  THEN << >>
  ELSE HookCalls(heap, ov, ops[i]) \o
       (IF encode(heap, ov, ops[i]) # OK
        THEN << >>
        ELSE OperandCalls(heap, ov, ops, i + 1))

\* C25: when two solvers encode one term in any interleaving of their hook
\* calls, each gets the Error and makes the hook calls, in their order, that
\* it gets and makes encoding the term alone, and the nodes are unchanged.
C25_ConcurrentReaders ==
  /\ nodes = BaseHeap
  /\ \A s \in SolverIds :
       LET alone == HookCalls(BaseHeap, solvers[s].ov, arg)
       IN  /\ Len(solvers[s].log) <= Len(alone)
           /\ solvers[s].log = SubSeq(alone, 1, Len(solvers[s].log))
           /\ solvers[s].err # "none" =>
                /\ solvers[s].err = EncodeReturn(BaseHeap, solvers[s].ov, arg)
                /\ solvers[s].log = alone
                /\ solvers[s].stack = << >>

\* two solvers of different backends are both in the middle of encoding
\* select(store(a, 0, 2), 0): solver 1 has made three hook calls and solver 2
\* two, and neither has returned
C25_Witness ==
  /\ arg = 14
  /\ solvers[1].ov = BuiltinLiteralTypes
  /\ solvers[2].ov = {}
  /\ solvers[1].err = "none"
  /\ solvers[2].err = "none"
  /\ Len(solvers[1].log) = 3
  /\ Len(solvers[2].log) = 2

\* -------------------------------------------------- unsat is monotone
\* the solver of a backend that overrides every literal hook
InitMono ==
  /\ Init
  /\ overrides = BuiltinLiteralTypes

NextMono ==
  \/ Reset
  \/ Push
  \/ Pop
  \/ \E t \in {Null} \cup {a \in Assertable : nodes[a].dyn = "Bool"} : Add(t)
  \/ \E u \in {a \in Assertable : sort(nodes[a].sort).is_bool} : UnsafeAdd(u)
  \/ Check

\* the assertion stack of one solver: terms asserted, frames pushed and
\* popped, the stack checked
SpecMono == InitMono /\ [][NextMono]_vars

\* check() on the stack fs returns unsat
Unsat(fs) == DecideFrames(nodes, fs) = unsat

\* C26: while no pop() and no reset() removes assertions, a stack whose
\* check() is unsat stays so under add, unsafe_add and push, and every
\* check() made on it returns unsat: once check() has returned unsat, every
\* later check() returns unsat until a pop() or a reset().
C26_UnsatMonotone ==
  [][(Unsat(frames) /\ lastOp' \notin {"pop", "reset"}) =>
       /\ Unsat(frames')
       /\ lastOp' = "check" => ret' = unsat]_vars

\* check() returned unsat on a stack whose base frame alone is unsat and
\* above which a frame was pushed and a term asserted
C26_Witness ==
  /\ lastOp = "check"
  /\ ret = unsat
  /\ Len(frames) > 1
  /\ frames[Len(frames)] # {}
  /\ Unsat(<<frames[1]>>)

\* --------------------------------------- typed and untyped builders
\* Client code calls a typed builder and then the untyped builder it
\* corresponds to on the same operands, converted to untyped handles.
AgreeLeafHeap ==
  << ConstantExpr("Int", Decl("Int", "x")),
     ConstantExpr("Int", Decl("Int", "y")),
     ConstantExpr("Bool", Decl("Bool", "b")),
     ConstantExpr("Bool", Decl("Bool", "c")),
     ConstantExpr("BvU8", Decl("BvU8", "u")),
     ConstantExpr("BvU8", Decl("BvU8", "w")),
     ConstantExpr("ArrIntInt", Decl("ArrIntInt", "a")) >>

InitAgree ==
  /\ nodes = AgreeLeafHeap
  /\ overrides = {}
  /\ InitSolver

CanAgree ==
  /\ ~violation
  /\ Len(nodes) < Len(AgreeLeafHeap) + 2 * MaxNodes

\* the two calls: the typed node is allocated first, then the untyped one
Paired(op, T, ops, pre, typed, untyped) ==
  /\ lastOp' = op
  /\ UNCHANGED clientVars
  /\ argT' = T
  /\ args' = ops
  /\ IF pre
     THEN /\ nodes' = Allocate(Allocate(nodes, ops, typed), ops, untyped)
          /\ ret' = Len(nodes) + 1
          /\ arg' = Len(nodes) + 2
          /\ UNCHANGED violation
     ELSE /\ nodes' = nodes
          /\ ret' = Null
          /\ arg' = Null
          /\ violation' = TRUE
  /\ encErr' = "none"
  /\ calls' = << >>
  /\ UNCHANGED <<overrides, solverVars>>

\* any<T>("c") and constant(UnsafeDecl("c", internal::sort<T>()))
AgreeConstant(T) ==
  /\ CanAgree
  /\ Paired("constant", T, << >>, TRUE,
       ConstantExpr(T, Decl(T, "c")),
       UnsafeConstantExpr(UnsafeDecl("c", T)))

\* the typed and the untyped unary operator
AgreeUnary(opcode, T, a) ==
  /\ CanAgree
  /\ Paired("unary", T, <<a>>, UnsafeUnaryExprPre(a),
       BuiltinUnaryOp(opcode, T, a),
       UnsafeUnaryOp(nodes, opcode, TermToUnsafe(a)))

\* the typed and the untyped binary operator
AgreeOp(opcode, T, l, r) ==
  /\ CanAgree
  /\ Paired("binary", T, <<l, r>>, UnsafeBinaryExprPre(l, r),
       BuiltinBinaryOp(opcode, T, l, r),
       UnsafeBinaryOp(nodes, opcode, TermToUnsafe(l), TermToUnsafe(l),
                      TermToUnsafe(r)))

\* the typed and the untyped binary relation
AgreeRel(opcode, T, l, r) ==
  /\ CanAgree
  /\ Paired("rel", "Bool", <<l, r>>, UnsafeBinaryExprPre(l, r),
       BuiltinBinaryRel(opcode, T, l, r),
       UnsafeBinaryRel(opcode, TermToUnsafe(l), TermToUnsafe(r)))

\* the typed and the untyped select
AgreeSelect(array, index) ==
  /\ CanAgree
  /\ Paired("select", "Int", <<array, index>>,
       UnsafeArraySelectExprPre(array, index),
       select(array, index),
       UnsafeArraySelectExpr(sorts(nodes[array].sort, 1),
                             TermToUnsafe(array), TermToUnsafe(index)))

\* the typed and the untyped store
AgreeStore(array, index, value) ==
  /\ CanAgree
  /\ Paired("store", "ArrIntInt", <<array, index, value>>,
       UnsafeArrayStoreExprPre(array, index, value),
       store(array, index, value),
       UnsafeArrayStoreExpr(nodes[array].sort, TermToUnsafe(array),
                            TermToUnsafe(index), TermToUnsafe(value)))

\* the typed and the untyped function application
AgreeApply(F, t) ==
  /\ CanAgree
  /\ Paired("apply", Range(F), t, UnsafeFuncAppExprPre(t),
       FuncAppExpr(Range(F), Decl(F, "f"), t),
       UnsafeFuncAppExpr(UnsafeFuncAppSort(UnsafeDecl("f", F), Len(t)),
                         UnsafeDecl("f", F), t))

\* the typed and the untyped distinct
AgreeDistinct(T, terms) ==
  /\ CanAgree
  /\ Paired("distinct", "Bool", terms, UnsafeNaryExprPre(terms),
       Distinct(T, terms),
       UnsafeNaryExpr("Bool", NEQ, terms))

\* the non-null operand tuples of the types of the parameters of F
AgreeArgs(heap, F) == {t \in ArgTuples(heap, F) : \A i \in DOMAIN t : t[i] # Null}

NextAgree ==
  \/ \E T \in Types : AgreeConstant(T)
  \/ \E a \in TermsOfType(nodes, "Int") : AgreeUnary(SUB, "Int", a)
  \/ \E a \in TermsOfType(nodes, "Bool") : AgreeUnary(LNOT, "Bool", a)
  \/ \E a \in TermsOfType(nodes, "BvU8") : AgreeUnary(NOT, "BvU8", a)
  \/ \E T \in {"Int", "BvU8"}, opcode \in ArithOpcodes :
       \E l, r \in TermsOfType(nodes, T) : AgreeOp(opcode, T, l, r)
  \/ \E T \in {"Int", "BvU8", "Bool"} :
       \E opcode \in IF T = "Bool" THEN {EQL, NEQ} ELSE RelOpcodes :
         \E l, r \in TermsOfType(nodes, T) : AgreeRel(opcode, T, l, r)
  \/ \E array \in TermsOfType(nodes, "ArrIntInt"),
        index \in TermsOfType(nodes, "Int") : AgreeSelect(array, index)
  \/ \E array \in TermsOfType(nodes, "ArrIntInt"),
        index \in TermsOfType(nodes, "Int"),
        value \in TermsOfType(nodes, "Int") : AgreeStore(array, index, value)
  \/ \E F \in FuncTypes : \E t \in AgreeArgs(nodes, F) : AgreeApply(F, t)
  \/ \E T \in {"Int", "Bool"} : \E l, r \in TermsOfType(nodes, T) :
       AgreeDistinct(T, <<l, r>>)

\* every typed builder called together with its untyped one
SpecAgree == InitAgree /\ [][NextAgree]_vars

\* C27: the node a typed builder creates has, seen through an untyped
\* handle, the kind of the node the untyped builder creates from the same
\* operands and a sort equal to its sort, and the sort of the typed node is
\* the sort of the static result type of the builder.
C27_BuildersAgree ==
  (lastOp \in {"constant", "unary", "binary", "rel", "select", "store",
               "apply", "distinct"} /\ ~violation) =>
    LET typed == Pointee(nodes, TermToUnsafe(ret))
        untyped == Pointee(nodes, arg)
    IN  /\ typed.kind = untyped.kind
        /\ SortEq(typed.sort, untyped.sort)
        /\ SortEq(untyped.sort, typed.sort)
        /\ typed.opcode = untyped.opcode
        /\ typed.operands = args
        /\ untyped.operands = args
        /\ typed.sort = argT
        /\ typed.dyn = argT
        /\ untyped.dyn = "none"

\* select(a, x) was built by both builders: the untyped node took the sort
\* of the second nested sort of the sort of a
C27_Witness ==
  /\ lastOp = "select"
  /\ ~violation
  /\ args = <<7, 1>>
  /\ nodes[ret].kind = ARRAY_SELECT_EXPR_KIND
  /\ nodes[arg].kind = ARRAY_SELECT_EXPR_KIND
  /\ nodes[arg].sort = "Int"
  /\ nodes[arg].dyn = "none"

\* ------------------------------------------ untyped builders' result sorts
\* Untyped terms of sorts with no, one and two nested sorts: x of Int, a of
\* Array<Int, Int> and t of a user-allocated sort over {Int}
RangeLeafHeap ==
  << ConstantExpr("Int", Decl("Int", "x")),
     ConstantExpr("ArrIntInt", Decl("ArrIntInt", "a")),
     UnsafeConstantExpr(UnsafeDecl("t", "UserSingle")) >>

InitRange ==
  /\ nodes = RangeLeafHeap
  /\ overrides = {}
  /\ InitSolver

\* the sorts a function declaration is given
DeclSorts ==
  {"Int", "UserSingle", "UserTuple", "ArrIntInt", "FuncIntInt",
   "FuncBoolIntBvU8"}

\* select(array, index) on untyped handles: new UnsafeArraySelectExpr
UnsafeSelect(array, index) ==
  /\ CanApply
  /\ Applied("unsafe_select", "none", <<array, index>>,
             UnsafeArraySelectSort(nodes, array),
             UnsafeArraySelectExpr(UnsafeArraySelectSort(nodes, array),
                                   array, index))

\* store(array, index, value) on untyped handles: new UnsafeArrayStoreExpr
UnsafeStore(array, index, value) ==
  /\ CanApply
  /\ Applied("unsafe_store", "none", <<array, index, value>>,
             UnsafeArrayStoreSort(nodes, array),
             UnsafeArrayStoreExpr(UnsafeArrayStoreSort(nodes, array),
                                  array, index, value))

NextRange ==
  \/ \E array, index \in DOMAIN nodes : UnsafeSelect(array, index)
  \/ \E array, index, value \in DOMAIN nodes :
       UnsafeStore(array, index, value)
  \/ \E D \in DeclSorts, arity \in 1..2 :
       \E t \in [1..arity -> DOMAIN nodes] : UnsafeApply(D, t)

\* the untyped select, store and function application on non-null terms
\* and declarations of every sort
SpecRange == InitRange /\ [][NextRange]_vars

\* how many nested sorts the Sort named S has
NestedCount(S) == Len(SortObj(S).sorts)

\* the call failed with std::out_of_range and no node was created
OutOfRange ==
  /\ nodes' = nodes
  /\ ~ret'.returned
  /\ ret'.err = "out_of_range"
  /\ ret'.addr = Null

\* C28: an untyped select on a non-null term whose sort has fewer than two
\* nested sorts and an untyped function application of arity n with a
\* declaration whose sort has at most n nested sorts fail with
\* std::out_of_range and create no node; an untyped store on non-null terms
\* succeeds and its node has the sort of its array operand.
C28_NestedSortMissing ==
  [][/\ (lastOp' = "unsafe_select"
           /\ NestedCount(nodes[args'[1]].sort) < 2) => OutOfRange
     /\ (lastOp' = "unsafe_apply"
           /\ NestedCount(argT') <= Len(args')) => OutOfRange
     /\ lastOp' = "unsafe_store" =>
          /\ ret'.returned
          /\ ret'.err = "none"
          /\ nodes' = Append(nodes, nodes'[ret'.addr])
          /\ ret'.addr = Len(nodes) + 1
          /\ nodes'[ret'.addr].kind = ARRAY_STORE_EXPR_KIND
          /\ nodes'[ret'.addr].operands = args'
          /\ nodes'[ret'.addr].sort = nodes[args'[1]].sort]_vars

\* select(t, x) on the term t whose sort has one nested sort failed
C28_Witness ==
  /\ lastOp = "unsafe_select"
  /\ args = <<3, 1>>
  /\ NestedCount(nodes[3].sort) = 1
  /\ ~ret.returned
  /\ ret.err = "out_of_range"
  /\ nodes = RangeLeafHeap

\* ------------------------------------------------- tracer specification
\* Tracer keeps the list m_flips of the flips of the branches met so far,
\* the iterator m_flip_iter into it and the guard m_guard, a Bool term; a
\* position past the last flip stands for m_flips.cend(), which stays the
\* end of the list when a flip is appended.
TracerHeap ==
  SubSeq(BaseHeap, 1, 6) \o <<LiteralExpr("Bool", "bool", 1)>>

\* the branch conditions given to append_guard: 0 < x, 2 == x and 0 > x
BranchConds == {4, 5, 6}

\* the guard of a tracer that met no branch: the literal true
TrueGuard == Len(TracerHeap)

\* Flip(): a flip in the direction true
Flip == [direction |-> TRUE]

\* the flip lists of at most n flips
FlipLists(n) ==
  UNION {[1..k -> [direction : BOOLEAN]] : k \in 0..n}

\* the tracer before an execution: flips recorded by earlier ones, the
\* iterator at the first of them, the guard true
InitTracer ==
  /\ nodes = TracerHeap
  /\ overrides = {}
  /\ InitCore
  /\ handles = << >>
  /\ blocks = << >>
  /\ members = << >>
  /\ deletes = << >>
  /\ solvers = << >>
  /\ m_flips \in FlipLists(MaxDepth)
  /\ m_flip_iter = 1
  /\ m_guard = TrueGuard

\* m_flip_iter == m_flips.cend()
AtEnd(flips, iter) == iter = Len(flips) + 1

\* append_guard: the direction it returns
Direction(flips, iter) ==
  IF AtEnd(flips, iter) THEN TRUE ELSE flips[iter].direction

\* an append_guard that appends a flip at every call
FlipsAfterAlways(flips, iter) == Append(flips, Flip)

\* append_guard: m_flips after the call
FlipsAfter(flips, iter) ==
  IF AtEnd(flips, iter) THEN Append(flips, Flip) ELSE flips

\* append_guard: m_flip_iter after the call
IterAfter(flips, iter) ==
  IF AtEnd(flips, iter) THEN Len(flips) + 2 ELSE iter + 1

\* an append_guard that takes the condition as it is in both directions
GuardNodesNoNegation(heap, guard, term, direction) ==
  <<BinaryExpr(LAND, "Bool", guard, term)>>

\* append_guard: the nodes m_guard and internal.term, or m_guard and
\* !internal.term, allocates; the last one is the new guard
GuardNodes(heap, guard, term, direction) ==
  IF direction
  THEN <<BinaryExpr(LAND, "Bool", guard, term)>>
  ELSE <<UnaryExpr(LNOT, "Bool", term),
         BinaryExpr(LAND, "Bool", guard, Len(heap) + 1)>>

\* the symbolic execution goes on
CanTrace ==
  /\ ~violation
  /\ Len(args) <= MaxDepth

\* Tracer::append_guard(internal) with internal.term the Bool term at term
AppendGuard(term) ==
  /\ CanTrace
  /\ LET direction == Direction(m_flips, m_flip_iter)
         news == GuardNodes(nodes, m_guard, term, direction)
     IN  /\ m_flips' = FlipsAfter(m_flips, m_flip_iter)
         /\ violation' = (AtEnd(m_flips, m_flip_iter)
                            /\ m_flips'[Len(m_flips')].direction # direction)
         /\ m_flip_iter' = IterAfter(m_flips, m_flip_iter)
         /\ nodes' = nodes \o news
         /\ m_guard' = Len(nodes) + Len(news)
         /\ ret' = direction
         /\ args' = Append(args, <<term, direction>>)
  /\ lastOp' = "append_guard"
  /\ arg' = term
  /\ UNCHANGED <<overrides, solverVars, argT, encErr, calls, lifeVars,
                 solvers>>

NextTracer == \E term \in BranchConds : AppendGuard(term)

\* the branches of one execution, met one after the other
SpecTracer == InitTracer /\ [][NextTracer]_vars

\* C29: when the flip iterator is at the end of the flip list, append_guard
\* appends one flip of direction true and returns true; otherwise it returns
\* the direction of the flip at the iterator, advances the iterator by one
\* and leaves the flip list as it is.
C29_AppendGuardFlips ==
  [][lastOp' = "append_guard" =>
       IF m_flip_iter = Len(m_flips) + 1
       THEN /\ Len(m_flips') = Len(m_flips) + 1
            /\ SubSeq(m_flips', 1, Len(m_flips)) = m_flips
            /\ m_flips'[Len(m_flips')].direction = TRUE
            /\ ret' = TRUE
            /\ ~violation'
       ELSE /\ ret' = m_flips[m_flip_iter].direction
            /\ m_flip_iter' = m_flip_iter + 1
            /\ m_flips' = m_flips]_vars

\* the recorded flips false, true were followed and a third branch added a
\* flip of direction true
C29_Witness ==
  /\ lastOp = "append_guard"
  /\ Len(args) = 3
  /\ args[1][2] = FALSE
  /\ args[2][2] = TRUE
  /\ args[3][2] = TRUE
  /\ m_flips = <<[direction |-> FALSE], [direction |-> TRUE],
                 [direction |-> TRUE]>>
  /\ m_flip_iter = 4

\* the branch conditions a guard is the conjunction of, first to last, each
\* with the direction it was taken in
RECURSIVE GuardConjuncts(_, _)
GuardConjuncts(heap, guard) ==
  IF guard = TrueGuard
  THEN << >>
  ELSE LET taken == heap[guard].operands[2]
       IN  Append(GuardConjuncts(heap, heap[guard].operands[1]),
                  IF heap[taken].kind = UNARY_EXPR_KIND
                  THEN <<heap[taken].operands[1], FALSE>>
                  ELSE <<taken, TRUE>>)

\* C30: append_guard(c) returning d replaces the guard by the term
\* (old guard && c) if d is true and by (old guard && !c) if d is false; the
\* guard is the conjunction, in call order, of the conditions of the calls,
\* each in the direction its call returned, and the new guard implies the
\* old one.
C30_GuardAccumulates ==
  [][lastOp' = "append_guard" =>
       LET g == nodes'[m_guard']
       IN  /\ SubSeq(nodes', 1, Len(nodes)) = nodes
           /\ m_guard' = Len(nodes')
           /\ g = BinaryExpr(LAND, "Bool", m_guard, g.operands[2])
           /\ IF ret'
              THEN /\ g.operands[2] = arg'
                   /\ Len(nodes') = Len(nodes) + 1
              ELSE /\ nodes'[g.operands[2]] = UnaryExpr(LNOT, "Bool", arg')
                   /\ g.operands[2] = Len(nodes) + 1
                   /\ Len(nodes') = Len(nodes) + 2
           /\ GuardConjuncts(nodes', m_guard') = args'
           /\ \A m \in Models :
                /\ Eval(nodes', m_guard', m) => Eval(nodes, m_guard, m)
                /\ Eval(nodes', m_guard', m) <=>
                     (Eval(nodes, m_guard, m) /\ (Eval(nodes, arg', m) <=> ret'))]_vars

\* the guard is (true && !(0 < x)) && (2 == x) after two calls that followed
\* the recorded flips false, true
C30_Witness ==
  /\ lastOp = "append_guard"
  /\ args = <<<<4, FALSE>>, <<5, TRUE>>>>
  /\ nodes[m_guard] = BinaryExpr(LAND, "Bool", 9, 5)
  /\ nodes[9] = BinaryExpr(LAND, "Bool", TrueGuard, 8)
  /\ nodes[8] = UnaryExpr(LNOT, "Bool", 4)

====
